---- MODULE Spec2Model ----
(***************************************************************************)
(* Model of the mizu-crypto core: the X3DH agent (x3dh.rs), the Double     *)
(* Ratchet agent (double_ratchet.rs), the key derivations (keys.rs) and    *)
(* the outer Client that composes them (lib.rs).                           *)
(*                                                                         *)
(* Cryptography is symbolic.  A private key is a key id <<owner, n>>; its  *)
(* public key is written with the same id.  A Diffie-Hellman output is the *)
(* unordered pair of the two key ids, so DH(a, pub(b)) = DH(b, pub(a)).    *)
(* KDF outputs are terms over their inputs, AEAD ciphertexts are records   *)
(* that open only under the same key and the same associated data.        *)
(***************************************************************************)
EXTENDS Integers, Sequences, FiniteSets, TLC

\* static MAX_SKIP: u64 = 32
MAX_SKIP == 32

\* bounds of the model
MaxSends == 3
MaxWire == 4
MaxRecv == 4
MaxAdvSends == 2
MaxAdvRecv == 3
MaxBurst == 34
MaxBurstRecv == 2
MaxAsyncSends == 4
MaxAsyncRecv == 4
MaxRunSends == 36
MaxRunRecv == 4
MaxOrderRecv == 5
MaxOrderWire == 2
MaxLongSends == 4
MaxLongRecv == 3
MaxPosts == 3
MaxFed == 4
MaxClock == 3
MaxBox == 2
MaxFaultyPosts == 2
MaxFaultyFed == 2
MaxTurnPosts == 35

Clients == {"alice", "bob"}
Peer(c) == IF c = "alice" THEN "bob" ELSE "alice"

\* Option<T>: None is the empty sequence, Some(x) the one-element sequence.
None == <<>>
Some(x) == <<x>>
Unwrap(o) == o[1]

(***************************************************************************)
(* Randomness.  A csprng is a stream of never-repeating key ids of its     *)
(* owner; StaticSecret::new(csprng) takes the next one.                    *)
(***************************************************************************)
Fresh(rng) == <<rng.owner, rng.next>>
Advance(rng) == [rng EXCEPT !.next = @ + 1]

\* PublicKey::from(&private_key): the public key carries the id of its secret
PublicKey(private_key) == private_key

\* StaticSecret::diffie_hellman
DH(private_key, public_key) == {private_key, public_key}

(***************************************************************************)
(* AES-256-GCM.  Key and nonce are both derived from the same key          *)
(* material at every call site, so a ciphertext block records that         *)
(* material, the associated data and the message.  A byte string is a      *)
(* sequence; the ciphertext is a one-block byte string.                    *)
(***************************************************************************)
AeadEncrypt(key, msg, aad) == <<[key |-> key, aad |-> aad, msg |-> msg]>>

\* a plaintext longer than AES-GCM takes: Aes256Gcm::encrypt returns Err on it
Oversize == <<-1>>

AeadRefuses(msg) == msg = Oversize

AeadDecrypt(key, ciphertext, aad) ==
    IF /\ Len(ciphertext) = 1
       /\ ciphertext[1].key = key
       /\ ciphertext[1].aad = aad
    THEN [ok |-> TRUE, msg |-> ciphertext[1].msg]
    ELSE [ok |-> FALSE, msg |-> <<>>]

(***************************************************************************)
(* keys.rs                                                                 *)
(***************************************************************************)
\* PrekeyPublicKey::convert_to_ratchet_public_key: the same 32 bytes
convert_to_ratchet_public_key(prekey_public) == prekey_public

\* PrekeyKeyPair::convert_to_ratchet_keypair: the same secret
convert_to_ratchet_keypair(prekey_keypair) == prekey_keypair

\* RootKey(secret_key.0): a root key is the X3DH secret followed by the DH
\* outputs mixed into it so far
RootKey(secret_key) == [sk |-> secret_key, steps |-> <<>>]

\* RootKey::kdf: HKDF(salt = root key, ikm = shared secret); both expansions
\* use the same info on the same HKDF, so the chain key returned holds the
\* same bytes as the new root key (chain key = [base = new root, n = 0]).
RootKdf(root_key, shared_secret) ==
    LET rk == [root_key EXCEPT !.steps = Append(@, shared_secret)]
    IN  [root_key |-> rk, chain_key |-> [base |-> rk, n |-> 0]]

\* ChainKey::kdf: the message key (HMAC with inputs 1 and 3) is a function
\* of the chain key it is taken from; the chain advances by HMAC with input 2
ChainKdf(chain_key) ==
    [message_key |-> [ck |-> chain_key],
     chain_key |-> [chain_key EXCEPT !.n = @ + 1]]

(***************************************************************************)
(* x3dh.rs                                                                 *)
(***************************************************************************)
\* X3DHClient::kdf over dh1 || dh2 || dh3 (three fixed-width DH outputs)
X3DHKdf(dh1, dh2, dh3) == [dh1 |-> dh1, dh2 |-> dh2, dh3 |-> dh3]

\* X3DHClient::kdf over a secret key: the AEAD key and nonce of the envelope
X3DHEnvelopeKey(secret_key) == [x3dh |-> secret_key]

\* X3DHClient::new: IdentityKeyPair::new, then PrekeyKeyPair::new
X3DHClientNew(rng) ==
    [x3dh |-> [identity_key |-> Fresh(rng), prekey |-> Fresh(Advance(rng))],
     rng |-> Advance(Advance(rng))]

\* derive_initial_keys with DH2 and DH3 in each other's place
derive_initial_keys_swapped(x3dh, rng, ik, pk) ==
    LET ephemeral_private_key == Fresh(rng)
        dh1 == DH(x3dh.identity_key, pk)
        dh2 == DH(ephemeral_private_key, pk)
        dh3 == DH(ephemeral_private_key, ik)
    IN  [secret_key |-> X3DHKdf(dh1, dh2, dh3),
         ephemeral_public_key |-> PublicKey(ephemeral_private_key),
         rng |-> Advance(rng)]

\* X3DHClient::derive_initial_keys
derive_initial_keys(x3dh, rng, ik, pk) ==
    LET ephemeral_private_key == Fresh(rng)
        dh1 == DH(x3dh.identity_key, pk)
        dh2 == DH(ephemeral_private_key, ik)
        dh3 == DH(ephemeral_private_key, pk)
    IN  [secret_key |-> X3DHKdf(dh1, dh2, dh3),
         ephemeral_public_key |-> PublicKey(ephemeral_private_key),
         rng |-> Advance(rng)]

\* X3DHClient::build_associated_data: plain concatenation; the two keys have
\* a fixed width, the two info strings are not delimited
build_associated_data(sender_key, receiver_key, sender_info, receiver_info) ==
    <<sender_key, receiver_key>> \o sender_info \o receiver_info

\* X3DHClient::construct_initial_message
construct_initial_message(x3dh, content, secret_key, ephemeral_key, associated_data) ==
    [kind |-> "X3DH",
     identity_key |-> PublicKey(x3dh.identity_key),
     ephemeral_key |-> ephemeral_key,
     ciphertext |-> AeadEncrypt(X3DHEnvelopeKey(secret_key), content, associated_data)]

\* decrypt_initial_message with DH1 taken from the identity key instead of
\* the prekey
decrypt_initial_message_dh1(x3dh, message, sender_info, receiver_info) ==
    LET dh1 == DH(x3dh.identity_key, message.identity_key)
        dh2 == DH(x3dh.identity_key, message.ephemeral_key)
        dh3 == DH(x3dh.prekey, message.ephemeral_key)
        secret_key == X3DHKdf(dh1, dh2, dh3)
        associated_data == build_associated_data(message.identity_key,
                               PublicKey(x3dh.identity_key), sender_info, receiver_info)
        r == AeadDecrypt(X3DHEnvelopeKey(secret_key), message.ciphertext, associated_data)
    IN  [ok |-> r.ok, secret_key |-> secret_key, plaintext |-> r.msg]

\* decrypt_initial_message handing on the bytes whatever the tag check said
decrypt_initial_message_unchecked(x3dh, message, sender_info, receiver_info) ==
    LET dh1 == DH(x3dh.prekey, message.identity_key)
        dh2 == DH(x3dh.identity_key, message.ephemeral_key)
        dh3 == DH(x3dh.prekey, message.ephemeral_key)
        secret_key == X3DHKdf(dh1, dh2, dh3)
    IN  [ok |-> TRUE, secret_key |-> secret_key,
         plaintext |-> IF Len(message.ciphertext) = 1
                       THEN message.ciphertext[1].msg ELSE <<>>]

\* X3DHClient::decrypt_initial_message
decrypt_initial_message(x3dh, message, sender_info, receiver_info) ==
    LET dh1 == DH(x3dh.prekey, message.identity_key)
        dh2 == DH(x3dh.identity_key, message.ephemeral_key)
        dh3 == DH(x3dh.prekey, message.ephemeral_key)
        secret_key == X3DHKdf(dh1, dh2, dh3)
        associated_data == build_associated_data(message.identity_key,
                               PublicKey(x3dh.identity_key), sender_info, receiver_info)
        r == AeadDecrypt(X3DHEnvelopeKey(secret_key), message.ciphertext, associated_data)
    IN  [ok |-> r.ok, secret_key |-> secret_key, plaintext |-> r.msg]

(***************************************************************************)
(* bincode.  A DoubleRatchetMessage is laid out as the 32-byte ratchet     *)
(* key, the two u64 counters, the u64 length of the ciphertext and the     *)
(* ciphertext bytes.                                                       *)
(***************************************************************************)
SerializeHeader(header) ==
    <<header.ratchet_public_key, header.previous_sending_chain_count, header.sent_count>>

Serialize(message) ==
    SerializeHeader(message.header) \o <<Len(message.ciphertext)>> \o message.ciphertext

\* bincode::deserialize::<DoubleRatchetMessage>: None on a short or
\* overlong input
Deserialize(bytes) ==
    IF Len(bytes) >= 4 /\ bytes[4] = Len(bytes) - 4
    THEN Some([header |-> [ratchet_public_key |-> bytes[1],
                           previous_sending_chain_count |-> bytes[2],
                           sent_count |-> bytes[3]],
               ciphertext |-> SubSeq(bytes, 5, Len(bytes))])
    ELSE None

(***************************************************************************)
(* double_ratchet.rs                                                       *)
(***************************************************************************)
\* DoubleRatchetClient::initiate
DRInitiate(rng, secret_key, recipient_prekey) ==
    LET receiving_ratchet_key == convert_to_ratchet_public_key(recipient_prekey)
        sending_ratchet_keypair == Fresh(rng)
        k == RootKdf(RootKey(secret_key), DH(sending_ratchet_keypair, receiving_ratchet_key))
    IN  [dr |-> [sending_ratchet_keypair |-> sending_ratchet_keypair,
                 receiving_ratchet_key |-> Some(receiving_ratchet_key),
                 root_key |-> k.root_key,
                 sending_chain_key |-> Some(k.chain_key),
                 receiving_chain_key |-> None,
                 sent_count |-> 0,
                 received_count |-> 0,
                 previous_sending_chain_count |-> 0,
                 skipped_messages |-> {}],
         rng |-> Advance(rng)]

\* respond taking its own prekey for the peer's ratchet key as well
DRRespondOwnKey(secret_key, prekey_keypair) ==
    [sending_ratchet_keypair |-> convert_to_ratchet_keypair(prekey_keypair),
     receiving_ratchet_key |-> Some(PublicKey(convert_to_ratchet_keypair(prekey_keypair))),
     root_key |-> RootKey(secret_key),
     sending_chain_key |-> None,
     receiving_chain_key |-> None,
     sent_count |-> 0,
     received_count |-> 0,
     previous_sending_chain_count |-> 0,
     skipped_messages |-> {}]

\* DoubleRatchetClient::respond
DRRespond(secret_key, prekey_keypair) ==
    [sending_ratchet_keypair |-> convert_to_ratchet_keypair(prekey_keypair),
     receiving_ratchet_key |-> None,
     root_key |-> RootKey(secret_key),
     sending_chain_key |-> None,
     receiving_chain_key |-> None,
     sent_count |-> 0,
     received_count |-> 0,
     previous_sending_chain_count |-> 0,
     skipped_messages |-> {}]

\* DoubleRatchetClient::build_associated_data
DRBuildAD(x3dh_ad, message_header) == x3dh_ad \o SerializeHeader(message_header)

\* encrypt_message without `self.sent_count += 1`
DREncryptKeepsCount(self, plaintext, associated_data) ==
    LET k == ChainKdf(Unwrap(self.sending_chain_key))
        message_header == [ratchet_public_key |-> PublicKey(self.sending_ratchet_keypair),
                           previous_sending_chain_count |-> self.previous_sending_chain_count,
                           sent_count |-> self.sent_count]
        ad == DRBuildAD(associated_data, message_header)
        ciphertext == AeadEncrypt(k.message_key, plaintext, ad)
    IN  [ok |-> ~AeadRefuses(plaintext),
         dr |-> [self EXCEPT !.sending_chain_key = Some(k.chain_key)],
         message |-> [header |-> message_header, ciphertext |-> ciphertext]]

\* encrypt_message taking the message key without advancing the chain
DREncryptKeepsChain(self, plaintext, associated_data) ==
    LET k == ChainKdf(Unwrap(self.sending_chain_key))
        message_header == [ratchet_public_key |-> PublicKey(self.sending_ratchet_keypair),
                           previous_sending_chain_count |-> self.previous_sending_chain_count,
                           sent_count |-> self.sent_count]
        ad == DRBuildAD(associated_data, message_header)
        ciphertext == AeadEncrypt(k.message_key, plaintext, ad)
    IN  [ok |-> ~AeadRefuses(plaintext),
         dr |-> [self EXCEPT !.sent_count = @ + 1],
         message |-> [header |-> message_header, ciphertext |-> ciphertext]]

\* DoubleRatchetClient::encrypt_message.  The caller guarantees a sending
\* chain key (the expect() of the source).  The chain key is advanced in
\* place before the AEAD call, whose error is returned with `?`.
DREncrypt(self, plaintext, associated_data) ==
    LET k == ChainKdf(Unwrap(self.sending_chain_key))
        message_header == [ratchet_public_key |-> PublicKey(self.sending_ratchet_keypair),
                           previous_sending_chain_count |-> self.previous_sending_chain_count,
                           sent_count |-> self.sent_count]
        ad == DRBuildAD(associated_data, message_header)
        ciphertext == AeadEncrypt(k.message_key, plaintext, ad)
    IN  IF AeadRefuses(plaintext)
        THEN [ok |-> FALSE,
              dr |-> [self EXCEPT !.sending_chain_key = Some(k.chain_key)],
              message |-> None]
        ELSE [ok |-> TRUE,
              dr |-> [self EXCEPT !.sending_chain_key = Some(k.chain_key),
                                  !.sent_count = @ + 1],
              message |-> [header |-> message_header, ciphertext |-> ciphertext]]

\* HashMap<SkippedMessagesKey, MessageKey>: a set of entries, at most one
\* for each SkippedMessagesKey(ratchet key, index)
SkippedKey(ratchet_public_key, n) == [ratchet_public_key |-> ratchet_public_key, n |-> n]
MapHas(map, key) == \E e \in map : e.key = key
MapGet(map, key) == (CHOOSE e \in map : e.key = key).message_key
\* insertion that keeps the new entry alone
MapInsertAlone(map, key, message_key) ==
    {[key |-> key, message_key |-> message_key]}

MapInsert(map, key, message_key) ==
    {e \in map : e.key # key} \cup {[key |-> key, message_key |-> message_key]}
\* removal of every entry of the key's chain
MapRemoveChain(map, key) ==
    {e \in map : e.key.ratchet_public_key # key.ratchet_public_key}

\* removal that leaves the map as it was
MapRemoveNothing(map, key) == map

MapRemove(map, key) == {e \in map : e.key # key}

\* the while loop of skip_message_keys
RECURSIVE SkipLoop(_, _)
SkipLoop(self, until) ==
    IF self.received_count < until
    THEN LET k == ChainKdf(Unwrap(self.receiving_chain_key))
             key == SkippedKey(Unwrap(self.receiving_ratchet_key), self.received_count)
         IN  SkipLoop([self EXCEPT !.receiving_chain_key = Some(k.chain_key),
                                   !.skipped_messages = MapInsert(@, key, k.message_key),
                                   !.received_count = @ + 1],
                      until)
    ELSE self

\* skip_message_keys with the gate off by one
skip_message_keys_strict(self, until) ==
    IF self.received_count + MAX_SKIP <= until
    THEN [ok |-> FALSE, dr |-> self]
    ELSE IF self.receiving_chain_key # None
         THEN [ok |-> TRUE, dr |-> SkipLoop(self, until)]
         ELSE [ok |-> TRUE, dr |-> self]

\* skip_message_keys with a gate that lets one more key through
skip_message_keys_loose(self, until) ==
    IF self.received_count + MAX_SKIP + 1 < until
    THEN [ok |-> FALSE, dr |-> self]
    ELSE IF self.receiving_chain_key # None
         THEN [ok |-> TRUE, dr |-> SkipLoop(self, until)]
         ELSE [ok |-> TRUE, dr |-> self]

\* skip_message_keys with the gate alone: no key of the chain is derived
skip_message_keys_gate_only(self, until) ==
    IF self.received_count + MAX_SKIP < until
    THEN [ok |-> FALSE, dr |-> self]
    ELSE [ok |-> TRUE, dr |-> self]

\* DoubleRatchetClient::skip_message_keys
skip_message_keys(self, until) ==
    IF self.received_count + MAX_SKIP < until
    THEN [ok |-> FALSE, dr |-> self]
    ELSE IF self.receiving_chain_key # None
         THEN [ok |-> TRUE, dr |-> SkipLoop(self, until)]
         ELSE [ok |-> TRUE, dr |-> self]

\* the DH ratchet step leaving the received count of the old chain in place
DHRatchetKeepsCount(new_state, rng, header) ==
    LET k1 == RootKdf(new_state.root_key,
                      DH(new_state.sending_ratchet_keypair, header.ratchet_public_key))
        keypair == Fresh(rng)
        k2 == RootKdf(k1.root_key, DH(keypair, header.ratchet_public_key))
    IN  [new_state EXCEPT !.previous_sending_chain_count = new_state.sent_count,
                          !.sent_count = 0,
                          !.receiving_ratchet_key = Some(header.ratchet_public_key),
                          !.receiving_chain_key = Some(k1.chain_key),
                          !.sending_ratchet_keypair = keypair,
                          !.root_key = k2.root_key,
                          !.sending_chain_key = Some(k2.chain_key)]

\* the DH ratchet step taking its receiving half only: no new ratchet key
\* pair and no sending chain
DHRatchetReceivingHalf(new_state, rng, header) ==
    LET k1 == RootKdf(new_state.root_key,
                      DH(new_state.sending_ratchet_keypair, header.ratchet_public_key))
    IN  [new_state EXCEPT !.previous_sending_chain_count = new_state.sent_count,
                          !.sent_count = 0,
                          !.received_count = 0,
                          !.receiving_ratchet_key = Some(header.ratchet_public_key),
                          !.receiving_chain_key = Some(k1.chain_key),
                          !.root_key = k1.root_key]

\* the DH ratchet step leaving the receiving ratchet key as it was
DHRatchetKeepsKey(new_state, rng, header) ==
    LET k1 == RootKdf(new_state.root_key,
                      DH(new_state.sending_ratchet_keypair, header.ratchet_public_key))
        keypair == Fresh(rng)
        k2 == RootKdf(k1.root_key, DH(keypair, header.ratchet_public_key))
    IN  [new_state EXCEPT !.previous_sending_chain_count = new_state.sent_count,
                          !.sent_count = 0,
                          !.received_count = 0,
                          !.receiving_chain_key = Some(k1.chain_key),
                          !.sending_ratchet_keypair = keypair,
                          !.root_key = k2.root_key,
                          !.sending_chain_key = Some(k2.chain_key)]

\* the DH ratchet step leaving PN as it was
DHRatchetKeepsPrevious(new_state, rng, header) ==
    LET k1 == RootKdf(new_state.root_key,
                      DH(new_state.sending_ratchet_keypair, header.ratchet_public_key))
        keypair == Fresh(rng)
        k2 == RootKdf(k1.root_key, DH(keypair, header.ratchet_public_key))
    IN  [new_state EXCEPT !.sent_count = 0,
                          !.received_count = 0,
                          !.receiving_ratchet_key = Some(header.ratchet_public_key),
                          !.receiving_chain_key = Some(k1.chain_key),
                          !.sending_ratchet_keypair = keypair,
                          !.root_key = k2.root_key,
                          !.sending_chain_key = Some(k2.chain_key)]

\* the DH ratchet step deriving both chains from the root key it started with
DHRatchetOneRoot(new_state, rng, header) ==
    LET k1 == RootKdf(new_state.root_key,
                      DH(new_state.sending_ratchet_keypair, header.ratchet_public_key))
        keypair == Fresh(rng)
        k2 == RootKdf(new_state.root_key, DH(keypair, header.ratchet_public_key))
    IN  [new_state EXCEPT !.previous_sending_chain_count = new_state.sent_count,
                          !.sent_count = 0,
                          !.received_count = 0,
                          !.receiving_ratchet_key = Some(header.ratchet_public_key),
                          !.receiving_chain_key = Some(k1.chain_key),
                          !.sending_ratchet_keypair = keypair,
                          !.root_key = k2.root_key,
                          !.sending_chain_key = Some(k2.chain_key)]

\* the DH ratchet step of attempt_message_decryption, after the old chain's
\* keys were skipped
DHRatchet(new_state, rng, header) ==
    LET k1 == RootKdf(new_state.root_key,
                      DH(new_state.sending_ratchet_keypair, header.ratchet_public_key))
        keypair == Fresh(rng)
        k2 == RootKdf(k1.root_key, DH(keypair, header.ratchet_public_key))
    IN  [new_state EXCEPT !.previous_sending_chain_count = new_state.sent_count,
                          !.sent_count = 0,
                          !.received_count = 0,
                          !.receiving_ratchet_key = Some(header.ratchet_public_key),
                          !.receiving_chain_key = Some(k1.chain_key),
                          !.sending_ratchet_keypair = keypair,
                          !.root_key = k2.root_key,
                          !.sending_chain_key = Some(k2.chain_key)]

\* A result of attempt_message_decryption: kind is "ok", "err" (with the
\* CryptoError) or "panic"; state is the agent as the call left it in the
\* variable it worked on.
DRResult(kind, err, state, plaintext, rng) ==
    [kind |-> kind, err |-> err, dr |-> state, plaintext |-> plaintext, rng |-> rng]

\* the end of attempt_message_decryption: s2 is what
\* new_state.skip_message_keys(message.header.sent_count) returned; then the
\* next message key of the receiving chain and the AEAD decryption
DRDecrypt(s2, rng, message, associated_data) ==
    IF ~s2.ok
    THEN DRResult("err", "TooManySkippedMessages", s2.dr, <<>>, rng)
    ELSE IF s2.dr.receiving_chain_key = None
    THEN DRResult("panic", "unwrap", s2.dr, <<>>, rng)
    ELSE LET k == ChainKdf(Unwrap(s2.dr.receiving_chain_key))
             st2 == [s2.dr EXCEPT !.receiving_chain_key = Some(k.chain_key)]
             r == AeadDecrypt(k.message_key, message.ciphertext, associated_data)
         IN  IF r.ok
             THEN DRResult("ok", "", [st2 EXCEPT !.received_count = @ + 1], r.msg, rng)
             ELSE DRResult("err", "AEADDecryption", st2, <<>>, rng)

\* the middle of attempt_message_decryption: s1 is what skipping to the
\* header's PN returned when the header has a new ratchet key (ratchet), and
\* new_state untouched otherwise; then the DH ratchet step and the skip to N_s
DRStep(s1, ratchet, rng, message, associated_data) ==
    IF ~s1.ok
    THEN DRResult("err", "TooManySkippedMessages", s1.dr, <<>>, rng)
    ELSE DRDecrypt(skip_message_keys(IF ratchet
                                     THEN DHRatchet(s1.dr, rng, message.header)
                                     ELSE s1.dr,
                                     message.header.sent_count),
                   IF ratchet THEN Advance(rng) ELSE rng,
                   message, associated_data)

\* attempt_message_decryption run to its exit: the state returned is the one
\* the body was working on when it returned (self on the skipped-key path,
\* new_state after the clone).
DRTentative(self, rng, message, x3dh_ad) ==
    LET associated_data == DRBuildAD(x3dh_ad, message.header)
        hashmap_key == SkippedKey(message.header.ratchet_public_key, message.header.sent_count)
        ratchet == Some(message.header.ratchet_public_key) # self.receiving_ratchet_key
    IN  IF MapHas(self.skipped_messages, hashmap_key)
        THEN LET r == AeadDecrypt(MapGet(self.skipped_messages, hashmap_key),
                                  message.ciphertext, associated_data)
             IN  IF r.ok
                 THEN DRResult("ok", "",
                          [self EXCEPT !.skipped_messages = MapRemove(@, hashmap_key)],
                          r.msg, rng)
                 ELSE DRResult("err", "AEADDecryption", self, <<>>, rng)
        ELSE DRStep(IF ratchet
                    THEN skip_message_keys(self, message.header.previous_sending_chain_count)
                    ELSE [ok |-> TRUE, dr |-> self],
                    ratchet, rng, message, associated_data)

\* Persist changes to the state only if decryption is successful: t is the
\* outcome on new_state
DRPersist(self, t) ==
    IF t.kind = "ok" THEN t ELSE [t EXCEPT !.dr = self]

\* A variant that works on self instead of a clone.
DRAttemptInPlace(self, rng, message, x3dh_ad) ==
    DRTentative(self, rng, message, x3dh_ad)

\* DoubleRatchetClient::attempt_message_decryption: new_state = self.clone()
\* is written back to self only when decryption succeeded
DRAttempt(self, rng, message, x3dh_ad) ==
    DRPersist(self, DRTentative(self, rng, message, x3dh_ad))

(***************************************************************************)
(* lib.rs: the outer Client                                                *)
(***************************************************************************)
\* Client::new / Client::with_x3dh_client
ClientNew(x3dh, our_info, their_info) ==
    [x3dh |-> x3dh,
     double_ratchet |-> None,
     our_info |-> our_info,
     their_info |-> their_info,
     unacknowledged_x3dh |-> None]

RegularMessage(identity_key, double_ratchet_message) ==
    [kind |-> "Regular", identity_key |-> identity_key, message |-> double_ratchet_message]

\* X3DHClient::build_associated_data as create_message calls it
CreateAD(self, recipient_identity_key) ==
    build_associated_data(PublicKey(self.x3dh.identity_key), recipient_identity_key,
                          self.our_info, self.their_info)

\* the (None, None) arm without self.double_ratchet = Some(double_ratchet)
CreateInitialNoAgent(self, rng, recipient_identity_key, recipient_prekey, message_content) ==
    LET ad == CreateAD(self, recipient_identity_key)
        k == derive_initial_keys(self.x3dh, rng, recipient_identity_key, recipient_prekey)
        i == DRInitiate(k.rng, k.secret_key, recipient_prekey)
        e == DREncrypt(i.dr, message_content, ad)
        x3dh_message == construct_initial_message(self.x3dh, Serialize(e.message),
                            k.secret_key, k.ephemeral_public_key, ad)
    IN  [kind |-> "ok",
         client |-> [self EXCEPT
             !.unacknowledged_x3dh =
                 Some([secret_key |-> k.secret_key,
                       ephemeral_public_key |-> k.ephemeral_public_key])],
         rng |-> i.rng,
         message |-> Some(x3dh_message)]

\* create_message, arm (None, None): X3DH, then a new initiator agent
CreateInitial(self, rng, recipient_identity_key, recipient_prekey, message_content) ==
    LET ad == CreateAD(self, recipient_identity_key)
        k == derive_initial_keys(self.x3dh, rng, recipient_identity_key, recipient_prekey)
        i == DRInitiate(k.rng, k.secret_key, recipient_prekey)
        e == DREncrypt(i.dr, message_content, ad)
        x3dh_message == construct_initial_message(self.x3dh, Serialize(e.message),
                            k.secret_key, k.ephemeral_public_key, ad)
    IN  IF ~e.ok
        THEN [kind |-> "err", client |-> self, rng |-> i.rng, message |-> None]
        ELSE [kind |-> "ok",
              client |-> [self EXCEPT
                  !.double_ratchet = Some(e.dr),
                  !.unacknowledged_x3dh =
                      Some([secret_key |-> k.secret_key,
                            ephemeral_public_key |-> k.ephemeral_public_key])],
              rng |-> i.rng,
              message |-> Some(x3dh_message)]

\* the (Some, None) arm binding the message to the recipient's prekey
CreateRegularBindsPrekey(self, rng, recipient_identity_key, recipient_prekey, message_content) ==
    LET ad == CreateAD(self, recipient_identity_key) \o <<recipient_prekey>>
        e == DREncrypt(Unwrap(self.double_ratchet), message_content, ad)
    IN  [kind |-> IF e.ok THEN "ok" ELSE "err",
         client |-> [self EXCEPT !.double_ratchet = Some(e.dr)],
         rng |-> rng,
         message |-> IF e.ok
                     THEN Some(RegularMessage(PublicKey(self.x3dh.identity_key), e.message))
                     ELSE None]

\* create_message, arm (Some, None)
CreateRegular(self, rng, recipient_identity_key, recipient_prekey, message_content) ==
    LET ad == CreateAD(self, recipient_identity_key)
        e == DREncrypt(Unwrap(self.double_ratchet), message_content, ad)
    IN  IF ~e.ok
        THEN [kind |-> "err", client |-> [self EXCEPT !.double_ratchet = Some(e.dr)], rng |-> rng, message |-> None]
        ELSE [kind |-> "ok",
              client |-> [self EXCEPT !.double_ratchet = Some(e.dr)],
              rng |-> rng,
              message |-> Some(RegularMessage(PublicKey(self.x3dh.identity_key), e.message))]

\* the (Some, Some) arm taking the stored pair out of the slot without
\* putting it back
CreateRetransmitClears(self, rng, recipient_identity_key, recipient_prekey, message_content) ==
    LET ad == CreateAD(self, recipient_identity_key)
        u == Unwrap(self.unacknowledged_x3dh)
        e == DREncrypt(Unwrap(self.double_ratchet), message_content, ad)
        x3dh_message == construct_initial_message(self.x3dh, Serialize(e.message),
                            u.secret_key, u.ephemeral_public_key, ad)
    IN  [kind |-> "ok",
         client |-> [self EXCEPT !.double_ratchet = Some(e.dr),
                                 !.unacknowledged_x3dh = None],
         rng |-> rng,
         message |-> Some(x3dh_message)]

\* the (Some, Some) arm running X3DH again, as the (None, None) arm does
CreateRetransmitRekey(self, rng, recipient_identity_key, recipient_prekey, message_content) ==
    CreateInitial(self, rng, recipient_identity_key, recipient_prekey, message_content)

\* create_message, arm (Some, Some)
CreateRetransmit(self, rng, recipient_identity_key, recipient_prekey, message_content) ==
    LET ad == CreateAD(self, recipient_identity_key)
        u == Unwrap(self.unacknowledged_x3dh)
        e == DREncrypt(Unwrap(self.double_ratchet), message_content, ad)
        x3dh_message == construct_initial_message(self.x3dh, Serialize(e.message),
                            u.secret_key, u.ephemeral_public_key, ad)
    IN  IF ~e.ok
        THEN [kind |-> "err", client |-> [self EXCEPT !.double_ratchet = Some(e.dr)], rng |-> rng, message |-> None]
        ELSE [kind |-> "ok",
              client |-> [self EXCEPT !.double_ratchet = Some(e.dr),
                                      !.unacknowledged_x3dh = Some(u)],
              rng |-> rng,
              message |-> Some(x3dh_message)]

\* Client::create_message; kind is "ok", "err" (AEADEncryption) or "panic"
\* (the unreachable!() arm)
create_message(self, rng, recipient_identity_key, recipient_prekey, message_content) ==
    IF self.double_ratchet = None /\ self.unacknowledged_x3dh = None
    THEN CreateInitial(self, rng, recipient_identity_key, recipient_prekey, message_content)
    ELSE IF self.double_ratchet = None
    THEN [kind |-> "panic", client |-> self, rng |-> rng, message |-> None]
    ELSE IF self.unacknowledged_x3dh = None
    THEN CreateRegular(self, rng, recipient_identity_key, recipient_prekey, message_content)
    ELSE CreateRetransmit(self, rng, recipient_identity_key, recipient_prekey, message_content)

ClientResult(kind, err, client, plaintext, rng) ==
    [kind |-> kind, err |-> err, client |-> client, plaintext |-> plaintext, rng |-> rng]

\* the end of the X3DH arm: r is what the new agent's
\* attempt_message_decryption returned
X3DHInstall(self, r) ==
    IF r.kind # "ok"
    THEN ClientResult(r.kind, r.err, self, <<>>, r.rng)
    ELSE ClientResult("ok", "",
             [self EXCEPT !.double_ratchet = Some(r.dr),
                          !.unacknowledged_x3dh = None],
             r.plaintext, r.rng)

X3DHAD(self, encrypted_message) ==
    build_associated_data(encrypted_message.identity_key,
        PublicKey(self.x3dh.identity_key), self.their_info, self.our_info)

\* the X3DH arm installing the new agent and clearing the slot as soon as
\* the envelope opens, before the inner message is decrypted
X3DHOpenedEager(self, rng, encrypted_message, d) ==
    IF ~d.ok
    THEN ClientResult("err", "AEADDecryption", self, <<>>, rng)
    ELSE IF Deserialize(d.plaintext) = None
    THEN ClientResult("err", "Deserialization",
             [self EXCEPT !.double_ratchet = Some(DRRespond(d.secret_key, self.x3dh.prekey)),
                          !.unacknowledged_x3dh = None], <<>>, rng)
    ELSE X3DHInstall([self EXCEPT
                         !.double_ratchet = Some(DRRespond(d.secret_key, self.x3dh.prekey)),
                         !.unacknowledged_x3dh = None],
                     DRAttempt(DRRespond(d.secret_key, self.x3dh.prekey), rng,
                               Unwrap(Deserialize(d.plaintext)),
                               X3DHAD(self, encrypted_message)))

\* the X3DH arm keeping an agent it already has instead of replacing it
X3DHOpenedKeep(self, rng, encrypted_message, d) ==
    IF ~d.ok
    THEN ClientResult("err", "AEADDecryption", self, <<>>, rng)
    ELSE IF Deserialize(d.plaintext) = None
    THEN ClientResult("err", "Deserialization", self, <<>>, rng)
    ELSE X3DHInstall(self,
             DRAttempt(IF self.double_ratchet = None
                       THEN DRRespond(d.secret_key, self.x3dh.prekey)
                       ELSE Unwrap(self.double_ratchet),
                       rng, Unwrap(Deserialize(d.plaintext)),
                       X3DHAD(self, encrypted_message)))

\* the X3DH arm after decrypt_initial_message returned d: a new responder
\* agent from the secret key, the content deserialized and handed to it
X3DHOpened(self, rng, encrypted_message, d) ==
    IF ~d.ok
    THEN ClientResult("err", "AEADDecryption", self, <<>>, rng)
    ELSE IF Deserialize(d.plaintext) = None
    THEN ClientResult("err", "Deserialization", self, <<>>, rng)
    ELSE X3DHInstall(self,
             DRAttempt(DRRespond(d.secret_key, self.x3dh.prekey), rng,
                       Unwrap(Deserialize(d.plaintext)),
                       X3DHAD(self, encrypted_message)))

\* the X3DH arm of Client::attempt_message_decryption
AttemptX3DH(self, rng, encrypted_message) ==
    X3DHOpened(self, rng, encrypted_message,
               decrypt_initial_message(self.x3dh, encrypted_message,
                                       self.their_info, self.our_info))

\* the end of the (Regular, Some) arm leaving the stored X3DH pair in place
RegularKeepSlot(self, r) ==
    ClientResult(r.kind, r.err, [self EXCEPT !.double_ratchet = Some(r.dr)],
                 IF r.kind = "ok" THEN r.plaintext ELSE <<>>, r.rng)

\* the end of the (Regular, Some(double_ratchet)) arm: double_ratchet is a
\* &mut into self, so whatever the agent's call r leaves in it stays in the
\* Client
RegularKeep(self, r) ==
    IF r.kind # "ok"
    THEN ClientResult(r.kind, r.err, [self EXCEPT !.double_ratchet = Some(r.dr)],
                      <<>>, r.rng)
    ELSE ClientResult("ok", "",
             [self EXCEPT !.double_ratchet = Some(r.dr),
                          !.unacknowledged_x3dh = None],
             r.plaintext, r.rng)

\* the (Regular, Some(double_ratchet)) arm
AttemptRegular(self, rng, their_identity_key, encrypted_message) ==
    RegularKeep(self,
        DRAttempt(Unwrap(self.double_ratchet), rng, encrypted_message,
                  build_associated_data(their_identity_key,
                      PublicKey(self.x3dh.identity_key), self.their_info, self.our_info)))

\* attempt_message_decryption answering a Regular envelope it has no agent
\* for as a failed decryption
attempt_message_decryption_no_agent(self, rng, message) ==
    IF message.kind = "Regular" /\ self.double_ratchet = None
    THEN ClientResult("err", "AEADDecryption", self, <<>>, rng)
    ELSE IF message.kind = "X3DH"
    THEN AttemptX3DH(self, rng, message)
    ELSE AttemptRegular(self, rng, message.identity_key, message.message)

\* Client::attempt_message_decryption
attempt_message_decryption(self, rng, message) ==
    IF message.kind = "Regular" /\ self.double_ratchet = None
    THEN ClientResult("err", "UnreadableDoubleRatchetMessage", self, <<>>, rng)
    ELSE IF message.kind = "X3DH"
    THEN AttemptX3DH(self, rng, message)
    ELSE AttemptRegular(self, rng, message.identity_key, message.message)

(***************************************************************************)
(* bincode of the outer types.  An enum is its variant index and then its  *)
(* fields, a struct its fields in order, an Option a tag and the value, a  *)
(* Vec or HashMap its length and its elements.                             *)
(***************************************************************************)
\* serialize writing the same variant index for both variants
SerializeMessageOneIndex(message) ==
    IF message.kind = "X3DH"
    THEN <<0, message.identity_key, message.ephemeral_key, Len(message.ciphertext)>>
         \o message.ciphertext
    ELSE <<0, message.identity_key>> \o Serialize(message.message)

\* bincode::serialize(&Message)
SerializeMessage(message) ==
    IF message.kind = "X3DH"
    THEN <<0, message.identity_key, message.ephemeral_key, Len(message.ciphertext)>>
         \o message.ciphertext
    ELSE <<1, message.identity_key>> \o Serialize(message.message)

\* bincode::deserialize::<Message>: None on no bytes, an unknown variant
\* index or fields that do not fill the input
DeserializeMessage(bytes) ==
    IF Len(bytes) >= 4 /\ bytes[1] = 0 /\ bytes[4] = Len(bytes) - 4
    THEN Some([kind |-> "X3DH", identity_key |-> bytes[2], ephemeral_key |-> bytes[3],
               ciphertext |-> SubSeq(bytes, 5, Len(bytes))])
    ELSE IF Len(bytes) >= 2 /\ bytes[1] = 1
            /\ Deserialize(SubSeq(bytes, 3, Len(bytes))) # None
    THEN Some(RegularMessage(bytes[2], Unwrap(Deserialize(SubSeq(bytes, 3, Len(bytes))))))
    ELSE None

SerializeOption(option) == IF option = None THEN <<0>> ELSE <<1, Unwrap(option)>>

\* the entries of a HashMap in the order its iterator yields them
RECURSIVE SerializeEntries(_)
SerializeEntries(map) ==
    IF map = {}
    THEN <<>>
    ELSE LET e == CHOOSE e \in map : TRUE
         IN  <<e.key.ratchet_public_key, e.key.n, e.message_key>>
             \o SerializeEntries(map \ {e})

SerializeDoubleRatchet(dr) ==
    <<dr.sending_ratchet_keypair>> \o SerializeOption(dr.receiving_ratchet_key)
    \o <<dr.root_key>> \o SerializeOption(dr.sending_chain_key)
    \o SerializeOption(dr.receiving_chain_key)
    \o <<dr.sent_count, dr.received_count, dr.previous_sending_chain_count>>
    \o <<Cardinality(dr.skipped_messages)>> \o SerializeEntries(dr.skipped_messages)

\* bincode::serialize(&Client)
SerializeClient(self) ==
    <<self.x3dh.identity_key, self.x3dh.prekey>>
    \o (IF self.double_ratchet = None
        THEN <<0>>
        ELSE <<1>> \o SerializeDoubleRatchet(Unwrap(self.double_ratchet)))
    \o <<Len(self.our_info)>> \o self.our_info
    \o <<Len(self.their_info)>> \o self.their_info
    \o (IF self.unacknowledged_x3dh = None
        THEN <<0>>
        ELSE <<1, Unwrap(self.unacknowledged_x3dh).secret_key,
               Unwrap(self.unacknowledged_x3dh).ephemeral_public_key>>)

\* readers of one field at a position of the input: the value and the
\* position after it
ReadOption(bytes, at) ==
    IF bytes[at] = 0
    THEN [value |-> None, next |-> at + 1]
    ELSE [value |-> Some(bytes[at + 1]), next |-> at + 2]

ReadVec(bytes, at) ==
    [value |-> SubSeq(bytes, at + 1, at + bytes[at]), next |-> at + 1 + bytes[at]]

ReadMap(bytes, at) ==
    [value |-> {[key |-> SkippedKey(bytes[at + 1 + 3 * i], bytes[at + 2 + 3 * i]),
                 message_key |-> bytes[at + 3 + 3 * i]] : i \in 0..(bytes[at] - 1)},
     next |-> at + 1 + 3 * bytes[at]]

ReadCounts(bytes, at, sending_ratchet_keypair, receiving_ratchet_key, root_key, sending_chain_key, receiving_chain_key) ==
    [value |-> Some([sending_ratchet_keypair |-> sending_ratchet_keypair,
                     receiving_ratchet_key |-> receiving_ratchet_key,
                     root_key |-> root_key,
                     sending_chain_key |-> sending_chain_key,
                     receiving_chain_key |-> receiving_chain_key,
                     sent_count |-> bytes[at],
                     received_count |-> bytes[at + 1],
                     previous_sending_chain_count |-> bytes[at + 2],
                     skipped_messages |-> ReadMap(bytes, at + 3).value]),
     next |-> ReadMap(bytes, at + 3).next]

ReadReceivingChain(bytes, sending_ratchet_keypair, receiving_ratchet_key, root_key, sending_chain_key, r) ==
    ReadCounts(bytes, r.next, sending_ratchet_keypair, receiving_ratchet_key, root_key,
               sending_chain_key, r.value)

ReadSendingChain(bytes, sending_ratchet_keypair, receiving_ratchet_key, root_key, r) ==
    ReadReceivingChain(bytes, sending_ratchet_keypair, receiving_ratchet_key, root_key,
                       r.value, ReadOption(bytes, r.next))

ReadRootKey(bytes, sending_ratchet_keypair, r) ==
    ReadSendingChain(bytes, sending_ratchet_keypair, r.value, bytes[r.next],
                     ReadOption(bytes, r.next + 1))

\* Option<DoubleRatchetClient> at a position of the input
ReadDoubleRatchet(bytes, at) ==
    IF bytes[at] = 0
    THEN [value |-> None, next |-> at + 1]
    ELSE ReadRootKey(bytes, bytes[at + 1], ReadOption(bytes, at + 2))

ReadUnacknowledged(bytes, x3dh, double_ratchet, our_info, their_info, at) ==
    IF bytes[at] = 0 /\ at = Len(bytes)
    THEN Some([x3dh |-> x3dh, double_ratchet |-> double_ratchet, our_info |-> our_info,
               their_info |-> their_info, unacknowledged_x3dh |-> None])
    ELSE IF bytes[at] = 1 /\ at + 2 = Len(bytes)
    THEN Some([x3dh |-> x3dh, double_ratchet |-> double_ratchet, our_info |-> our_info,
               their_info |-> their_info,
               unacknowledged_x3dh |->
                   Some([secret_key |-> bytes[at + 1],
                         ephemeral_public_key |-> bytes[at + 2]])])
    ELSE None

ReadTheirInfo(bytes, x3dh, double_ratchet, our_info, r) ==
    ReadUnacknowledged(bytes, x3dh, double_ratchet, our_info, r.value, r.next)

ReadOurInfo(bytes, x3dh, double_ratchet, r) ==
    ReadTheirInfo(bytes, x3dh, double_ratchet, r.value, ReadVec(bytes, r.next))

ReadInfos(bytes, x3dh, r) ==
    ReadOurInfo(bytes, x3dh, r.value, ReadVec(bytes, r.next))

\* bincode::deserialize::<Client>
DeserializeClient(bytes) ==
    ReadInfos(bytes, [identity_key |-> bytes[1], prekey |-> bytes[2]],
              ReadDoubleRatchet(bytes, 3))

(***************************************************************************)
(* The two parties and the network between them.                           *)
(***************************************************************************)
VARIABLES
    client,      \* client[c]: the Client of party c
    csprng,      \* csprng[c]: the random source c passes to its calls
    wire,        \* messages held by the network, deliverable at any time
    last,        \* the calls of the last step, with the states before them
    sends,       \* sends[c]: number of create_message calls of c
    recvs,       \* number of attempt_message_decryption calls
    drops,       \* drops[c]: consecutive dropped messages of c
    emitted,     \* emitted[c]: first X3DH envelope c produced, and how many
    discarded,   \* discarded[c]: sending ratchet keys of agents c replaced
    opened,      \* the first message of the run was delivered and decrypted
    postal_box,  \* postal_box[c]: the entries posted under the address of c
    clients,     \* clients[c]: the clients row c keeps for its contact
    messages,    \* messages[c]: the messages rows c keeps for its contact
    now,         \* the time the transport stamps a new entry with
    fed          \* fed[c]: the postal-box entries c has tried to decrypt

\* the state of the Drivers, their databases and the transport
driverVars == <<postal_box, clients, messages, now, fed>>

vars == <<client, csprng, wire, last, sends, recvs, drops, emitted, discarded,
          opened, postal_box, clients, messages, now, fed>>

\* our_info / their_info: b"alice" and b"bob" in the tests
Info(c) == IF c = "alice" THEN <<1>> ELSE <<2>>

Plaintexts == {<<>>, <<7>>}

NoCall == [op |-> "init", sender |-> "", sender_pre |-> None, msg |-> None,
           content |-> <<>>, tamper |-> "", delivered |-> FALSE, receiver |-> "",
           receiver_pre |-> None, kind |-> "", err |-> "", plaintext |-> <<>>,
           created |-> "", drops_pre |-> 0, again |-> FALSE]

Init ==
    /\ client = [c \in Clients |->
                    ClientNew(X3DHClientNew([owner |-> c, next |-> 0]).x3dh,
                              Info(c), Info(Peer(c)))]
    /\ csprng = [c \in Clients |-> X3DHClientNew([owner |-> c, next |-> 0]).rng]
    /\ wire = <<>>
    /\ last = NoCall
    /\ sends = [c \in Clients |-> 0]
    /\ recvs = 0
    /\ drops = [c \in Clients |-> 0]
    /\ emitted = [c \in Clients |-> [first |-> None, count |-> 0]]
    /\ discarded = [c \in Clients |-> {}]
    /\ opened = FALSE
    /\ postal_box = [c \in Clients |-> <<>>]
    /\ clients = [c \in Clients |-> None]
    /\ messages = [c \in Clients |-> <<>>]
    /\ now = 0
    /\ fed = [c \in Clients |-> <<>>]

TotalSends == sends["alice"] + sends["bob"]

\* c calls create_message for its peer's published keys
Create(c, p) ==
    create_message(client[c], csprng[c],
                   PublicKey(client[Peer(c)].x3dh.identity_key),
                   PublicKey(client[Peer(c)].x3dh.prekey), p)

\* bookkeeping of the X3DH envelopes c has produced
Emit(e, message) ==
    IF message # None /\ Unwrap(message).kind = "X3DH"
    THEN [first |-> IF e.first = None THEN message ELSE e.first, count |-> e.count + 1]
    ELSE e

\* bookkeeping of the agents a successful X3DH envelope replaced
Discard(d, pre, message, r) ==
    IF message.kind = "X3DH" /\ r.kind = "ok" /\ pre.double_ratchet # None
    THEN d \cup {Unwrap(pre.double_ratchet).sending_ratchet_keypair}
    ELSE d

\* the network drops the message of the call s
Dropped(c, p, s) ==
    /\ client' = [client EXCEPT ![c] = s.client]
    /\ csprng' = [csprng EXCEPT ![c] = s.rng]
    /\ sends' = [sends EXCEPT ![c] = @ + 1]
    /\ drops' = [drops EXCEPT ![c] = IF @ > MAX_SKIP THEN @ ELSE @ + 1]
    /\ emitted' = [emitted EXCEPT ![c] = Emit(@, s.message)]
    /\ last' = [NoCall EXCEPT !.op = "send", !.sender = c,
                    !.sender_pre = Some(client[c]), !.msg = s.message,
                    !.content = p, !.created = s.kind, !.drops_pre = drops[c]]
    /\ UNCHANGED <<wire, recvs, discarded, opened>>
    /\ UNCHANGED driverVars

\* c creates a message with content p and the network drops it
SendDrop(c, p) == Dropped(c, p, Create(c, p))

\* the network keeps the message of the call s for later
Held(c, p, s) ==
    /\ s.kind = "ok"
    /\ Len(wire) < MaxWire
    /\ client' = [client EXCEPT ![c] = s.client]
    /\ csprng' = [csprng EXCEPT ![c] = s.rng]
    /\ sends' = [sends EXCEPT ![c] = @ + 1]
    /\ emitted' = [emitted EXCEPT ![c] = Emit(@, s.message)]
    /\ wire' = Append(wire, [to |-> Peer(c), msg |-> Unwrap(s.message),
                              content |-> p, decrypted |-> 0])
    /\ last' = [NoCall EXCEPT !.op = "send", !.sender = c,
                    !.sender_pre = Some(client[c]), !.msg = s.message,
                    !.content = p, !.created = s.kind, !.drops_pre = drops[c]]
    /\ UNCHANGED <<recvs, drops, discarded, opened>>
    /\ UNCHANGED driverVars

\* c creates a message with content p and the network keeps it for later
SendHold(c, p) == Held(c, p, Create(c, p))

\* the message of the call s went to the peer b, whose call returned r
Delivered(c, p, s, b, r) ==
    /\ client' = [client EXCEPT ![c] = s.client, ![b] = r.client]
    /\ csprng' = [csprng EXCEPT ![c] = s.rng, ![b] = r.rng]
    /\ sends' = [sends EXCEPT ![c] = @ + 1]
    /\ drops' = [drops EXCEPT ![c] = IF @ > MAX_SKIP THEN @ ELSE 0]
    /\ recvs' = recvs + 1
    /\ emitted' = [emitted EXCEPT ![c] = Emit(@, s.message)]
    /\ discarded' = [discarded EXCEPT ![b] =
                        Discard(@, client[b], Unwrap(s.message), r)]
    /\ last' = [op |-> "send", sender |-> c, sender_pre |-> Some(client[c]),
                msg |-> s.message, content |-> p, tamper |-> "",
                delivered |-> TRUE, receiver |-> b,
                receiver_pre |-> Some(client[b]), kind |-> r.kind, err |-> r.err,
                plaintext |-> r.plaintext, created |-> s.kind,
                drops_pre |-> drops[c], again |-> FALSE]
    /\ opened' = IF TotalSends = 0 THEN r.kind = "ok" ELSE opened
    /\ UNCHANGED wire
    /\ UNCHANGED driverVars

\* the peer decrypts the message of the call s at once
Handed(c, p, s) ==
    /\ s.kind = "ok"
    /\ Delivered(c, p, s, Peer(c),
           attempt_message_decryption(client[Peer(c)], csprng[Peer(c)],
                                      Unwrap(s.message)))

\* c creates a message with content p and the peer decrypts it at once
SendDeliver(c, p) == Handed(c, p, Create(c, p))

(***************************************************************************)
(* What the network can do to a message before it delivers it.  It knows   *)
(* no key of the parties: it can change the fields in the clear and        *)
(* replace ciphertext bytes, and it can build messages with keys of its    *)
(* own ("mallory").                                                        *)
(***************************************************************************)
Mallory == X3DHClientNew([owner |-> "mallory", next |-> 0])

\* ciphertext bytes changed: the block opens under no key
Garble(ciphertext) == <<[ciphertext[1] EXCEPT !.key = [garbled |-> @]]>>

Tampers(kind) ==
    IF kind = "X3DH"
    THEN {"none", "ciphertext", "identity_key", "ephemeral_key"}
    ELSE {"none", "ciphertext", "identity_key", "ratchet_key", "ratchet_key_prekey",
          "sent_count", "previous_count"}

\* the published prekey of the party whose identity key the envelope m
\* carries, as a ratchet public key
PrekeyOf(m) ==
    convert_to_ratchet_public_key(PublicKey(client[m.identity_key[1]].x3dh.prekey))

Tamper(m, t) ==
    IF t = "none" THEN m
    ELSE IF t = "identity_key"
    THEN [m EXCEPT !.identity_key = PublicKey(Mallory.x3dh.identity_key)]
    ELSE IF m.kind = "X3DH"
    THEN IF t = "ephemeral_key"
         THEN [m EXCEPT !.ephemeral_key = PublicKey(Fresh(Mallory.rng))]
         ELSE [m EXCEPT !.ciphertext = Garble(@)]
    ELSE IF t = "ciphertext"
    THEN [m EXCEPT !.message.ciphertext = Garble(@)]
    ELSE IF t = "ratchet_key"
    THEN [m EXCEPT !.message.header.ratchet_public_key = PublicKey(Fresh(Mallory.rng))]
    ELSE IF t = "ratchet_key_prekey"
    THEN [m EXCEPT !.message.header.ratchet_public_key = PrekeyOf(m)]
    ELSE IF t = "sent_count"
    THEN [m EXCEPT !.message.header.sent_count = @ + 1]
    ELSE [m EXCEPT !.message.header.previous_sending_chain_count = @ + 1]

\* an X3DH envelope mallory builds for c with the X3DH agent alone: the
\* content is no DoubleRatchetMessage
ForgedEnvelope(c) ==
    LET k == derive_initial_keys(Mallory.x3dh, Mallory.rng,
                 PublicKey(client[c].x3dh.identity_key), PublicKey(client[c].x3dh.prekey))
        ad == build_associated_data(PublicKey(Mallory.x3dh.identity_key),
                  PublicKey(client[c].x3dh.identity_key),
                  client[c].their_info, client[c].our_info)
    IN  construct_initial_message(Mallory.x3dh, <<>>, k.secret_key,
                                  k.ephemeral_public_key, ad)

\* a Regular envelope with a header of mallory's choice and ciphertext bytes
\* that open under no key
ForgedRegular(ratchet_public_key, pn, ns) ==
    RegularMessage(PublicKey(Mallory.x3dh.identity_key),
        [header |-> [ratchet_public_key |-> ratchet_public_key,
                     previous_sending_chain_count |-> pn,
                     sent_count |-> ns],
         ciphertext |-> Garble(AeadEncrypt([ck |-> [base |-> RootKey(<<>>), n |-> 0]],
                                           <<>>, <<>>))])

ForgedCounts == {0, 2, MAX_SKIP + 2}

Forged(c) ==
    {ForgedEnvelope(c)} \cup
    {ForgedRegular(k, pn, ns) :
        k \in {PublicKey(Fresh(Mallory.rng)), PublicKey(client[Peer(c)].x3dh.prekey)},
        pn \in ForgedCounts, ns \in ForgedCounts}

\* message m (sent with plaintext p, changed by t) reached c, whose call
\* returned r; again: c has decrypted this very message before
Arrive(c, m, p, t, again, r) ==
    /\ recvs' = recvs + 1
    /\ client' = [client EXCEPT ![c] = r.client]
    /\ csprng' = [csprng EXCEPT ![c] = r.rng]
    /\ discarded' = [discarded EXCEPT ![c] = Discard(@, client[c], m, r)]
    /\ last' = [NoCall EXCEPT !.op = "recv", !.msg = Some(m), !.content = p,
                    !.tamper = t, !.delivered = TRUE, !.receiver = c,
                    !.receiver_pre = Some(client[c]), !.kind = r.kind,
                    !.err = r.err, !.plaintext = r.plaintext,
                    !.again = again]
    /\ UNCHANGED <<sends, drops, emitted, opened>>
    /\ UNCHANGED driverVars

\* the held message i, changed by t to m, reached its receiver, whose call
\* returned r; the network keeps the message and counts how often it was
\* decrypted as sent
Received(i, t, m, r) ==
    /\ Arrive(wire[i].to, m, wire[i].content, t,
              t = "none" /\ wire[i].decrypted > 0, r)
    /\ wire' = [wire EXCEPT ![i].decrypted =
                    IF t = "none" /\ r.kind = "ok" THEN @ + 1 ELSE @]

Tampered(i, t, m) ==
    Received(i, t, m,
             attempt_message_decryption(client[wire[i].to], csprng[wire[i].to], m))

\* the network delivers a held message, as sent or changed
Receive(i, t) ==
    /\ t \in Tampers(wire[i].msg.kind)
    /\ Tampered(i, t, Tamper(wire[i].msg, t))

\* the network delivers a message of its own making
ReceiveForged(c, m) ==
    /\ Arrive(c, m, <<>>, "forged", FALSE,
              attempt_message_decryption(client[c], csprng[c], m))
    /\ UNCHANGED wire

\* create_random_message: an envelope of keys and bytes that were not made
\* for its receiver
JunkEnvelope(identity_key, ephemeral_key, ciphertext) ==
    [kind |-> "X3DH", identity_key |-> identity_key, ephemeral_key |-> ephemeral_key,
     ciphertext |-> ciphertext]

\* the ciphertext of an envelope mallory built against its own published keys
StrayCiphertext ==
    construct_initial_message(Mallory.x3dh, <<>>,
        derive_initial_keys(Mallory.x3dh, Mallory.rng,
            PublicKey(Mallory.x3dh.identity_key),
            PublicKey(Mallory.x3dh.prekey)).secret_key,
        PublicKey(Fresh(Mallory.rng)),
        build_associated_data(PublicKey(Mallory.x3dh.identity_key),
            PublicKey(Mallory.x3dh.identity_key), <<>>, <<>>)).ciphertext

\* junk: no bytes, bytes that open under no key, bytes made for another
\* receiver
JunkBytes == {<<>>, Garble(StrayCiphertext), StrayCiphertext}

Junk(c) ==
    {JunkEnvelope(ik, PublicKey(Fresh(Mallory.rng)), ct) :
        ik \in {PublicKey(Mallory.x3dh.identity_key),
                PublicKey(client[Peer(c)].x3dh.identity_key)},
        ct \in JunkBytes}

\* the network delivers a junk envelope
ReceiveJunk(c, m) ==
    /\ Arrive(c, m, <<>>, "junk", FALSE,
              attempt_message_decryption(client[c], csprng[c], m))
    /\ UNCHANGED wire

\* the plaintext c gives to its next message: its name and a serial number
Payload(c) == Info(c) \o <<sends[c]>>

\* The two parties over a network that delivers at once, loses, delays,
\* reorders and repeats messages.
Next ==
    \/ \E c \in Clients :
          /\ TotalSends < MaxSends
          /\ recvs < MaxRecv
          /\ SendDeliver(c, Payload(c))
    \/ \E c \in Clients :
          /\ TotalSends < MaxSends
          /\ SendDrop(c, Payload(c))
    \/ \E c \in Clients :
          /\ TotalSends < MaxSends
          /\ SendHold(c, Payload(c))
    \/ \E i \in 1..Len(wire) :
          /\ recvs < MaxRecv
          /\ Receive(i, "none")

Spec == Init /\ [][Next]_vars

\* The same parties over a network that also changes messages and makes
\* messages of its own.
NextAdv ==
    \/ \E c \in Clients :
          /\ TotalSends < MaxAdvSends
          /\ recvs < MaxAdvRecv
          /\ SendDeliver(c, Payload(c))
    \/ \E c \in Clients :
          /\ TotalSends < MaxAdvSends
          /\ SendHold(c, Payload(c))
    \/ \E i \in 1..Len(wire), t \in Tampers("Regular") \cup Tampers("X3DH") :
          /\ recvs < MaxAdvRecv
          /\ Receive(i, t)
    \/ \E c \in Clients : \E m \in Forged(c) :
          /\ recvs < MaxAdvRecv
          /\ ReceiveForged(c, m)
    \/ \E c \in Clients : \E m \in Junk(c) :
          /\ recvs < MaxAdvRecv
          /\ ReceiveJunk(c, m)

SpecAdv == Init /\ [][NextAdv]_vars

\* One party sends a long run of messages, each delivered at once or
\* dropped, while its peer only receives.
NextBurst ==
    \/ \E c \in Clients, p \in Plaintexts :
          /\ sends[Peer(c)] = 0
          /\ sends[c] < MaxBurst
          /\ recvs < MaxBurstRecv
          /\ SendDeliver(c, p)
    \/ \E c \in Clients, p \in Plaintexts :
          /\ sends[Peer(c)] = 0
          /\ sends[c] < MaxBurst
          /\ SendDrop(c, p)

SpecBurst == Init /\ [][NextBurst]_vars

\* held message i is the next one for its receiver: not decrypted yet, and
\* every message held before it for the same receiver has been decrypted
InOrder(i) ==
    /\ wire[i].decrypted = 0
    /\ \A j \in 1..(i - 1) : wire[j].to = wire[i].to => wire[j].decrypted > 0

\* Both parties create messages before they read what the other sent; each
\* reads the messages for it in the order they were created.
NextAsync ==
    \/ \E c \in Clients :
          /\ TotalSends < MaxAsyncSends
          /\ SendHold(c, Payload(c))
    \/ \E i \in 1..Len(wire) :
          /\ recvs < MaxAsyncRecv
          /\ InOrder(i)
          /\ Receive(i, "none")

SpecAsync == Init /\ [][NextAsync]_vars

\* the lengths of the runs of dropped messages
DropRuns == {1, MAX_SKIP, MAX_SKIP + 1}

\* one more create_message call s in a run x of calls whose messages are
\* dropped
RunStep(x, s) ==
    [kind |-> s.kind, client |-> s.client, rng |-> s.rng,
     emitted |-> Emit(x.emitted, s.message)]

RECURSIVE CreateRun(_, _, _, _, _)
\* k calls of create_message in a row
CreateRun(x, recipient_identity_key, recipient_prekey, message_content, k) ==
    IF k = 0 \/ x.kind # "ok"
    THEN x
    ELSE CreateRun(RunStep(x, create_message(x.client, x.rng, recipient_identity_key,
                                             recipient_prekey, message_content)),
                   recipient_identity_key, recipient_prekey, message_content, k - 1)

\* the network dropped the k messages of the run x of c
DroppedRun(c, k, x) ==
    /\ client' = [client EXCEPT ![c] = x.client]
    /\ csprng' = [csprng EXCEPT ![c] = x.rng]
    /\ sends' = [sends EXCEPT ![c] = @ + k]
    /\ drops' = [drops EXCEPT ![c] = IF @ > MAX_SKIP THEN @
                                     ELSE IF @ + k > MAX_SKIP THEN MAX_SKIP + 1
                                     ELSE @ + k]
    /\ emitted' = [emitted EXCEPT ![c] = x.emitted]
    /\ last' = [NoCall EXCEPT !.op = "drop", !.sender = c, !.created = x.kind,
                    !.drops_pre = drops[c]]
    /\ UNCHANGED <<wire, recvs, discarded, opened>>
    /\ UNCHANGED driverVars

\* c creates k messages with empty content and the network drops them all
SendDropRun(c, k) ==
    DroppedRun(c, k,
        CreateRun([kind |-> "ok", client |-> client[c], rng |-> csprng[c],
                   emitted |-> emitted[c]],
                  PublicKey(client[Peer(c)].x3dh.identity_key),
                  PublicKey(client[Peer(c)].x3dh.prekey), <<>>, k))

\* Either party sends; a message is delivered at once, or a run of messages
\* is dropped after the party's last delivered message.
NextRuns ==
    \/ \E c \in Clients :
          /\ sends[c] < MaxRunSends
          /\ recvs < MaxRunRecv
          /\ SendDeliver(c, Payload(c))
    \/ \E c \in Clients, k \in DropRuns :
          /\ sends[c] + k <= MaxRunSends
          /\ drops[c] = 0
          /\ SendDropRun(c, k)

SpecRuns == Init /\ [][NextRuns]_vars

(***************************************************************************)
(* double_ratchet.rs tests: the two agents without the outer Client.  The   *)
(* harness keeps each agent beside its X3DHClient; here the agent sits in   *)
(* the double_ratchet slot of the party's record and a message travels in   *)
(* the Regular shape.                                                       *)
(***************************************************************************)
\* stub_x3dh: the secret the two parties are assumed to have agreed upon
StubSecret == [random |-> Fresh([owner |-> "stub", next |-> 0])]

\* stub_x3dh: the associated data, the same in both directions
StubAD ==
    build_associated_data(PublicKey(client["alice"].x3dh.identity_key),
                          PublicKey(client["bob"].x3dh.identity_key),
                          Info("alice"), Info("bob"))

\* the party c of the harness: Alice initiates, Bob responds
StubParty(c, x, prekey) ==
    IF c = "alice"
    THEN [client |-> [ClientNew(x.x3dh, Info(c), Info(Peer(c))) EXCEPT
                         !.double_ratchet =
                             Some(DRInitiate(x.rng, StubSecret, PublicKey(prekey)).dr)],
          rng |-> DRInitiate(x.rng, StubSecret, PublicKey(prekey)).rng]
    ELSE [client |-> [ClientNew(x.x3dh, Info(c), Info(Peer(c))) EXCEPT
                         !.double_ratchet = Some(DRRespond(StubSecret, prekey))],
          rng |-> x.rng]

StubInit(c) ==
    StubParty(c, X3DHClientNew([owner |-> c, next |-> 0]),
              X3DHClientNew([owner |-> "bob", next |-> 0]).x3dh.prekey)

InitDR ==
    /\ client = [c \in Clients |-> StubInit(c).client]
    /\ csprng = [c \in Clients |-> StubInit(c).rng]
    /\ wire = <<>>
    /\ last = NoCall
    /\ sends = [c \in Clients |-> 0]
    /\ recvs = 0
    /\ drops = [c \in Clients |-> 0]
    /\ emitted = [c \in Clients |-> [first |-> None, count |-> 0]]
    /\ discarded = [c \in Clients |-> {}]
    /\ opened = FALSE
    /\ postal_box = [c \in Clients |-> <<>>]
    /\ clients = [c \in Clients |-> None]
    /\ messages = [c \in Clients |-> <<>>]
    /\ now = 0
    /\ fed = [c \in Clients |-> <<>>]

\* the harness has the agent of `self` encrypt: e is what encrypt_message
\* returned
StubSent(self, rng, e) ==
    [kind |-> IF e.ok THEN "ok" ELSE "panic",
     client |-> [self EXCEPT !.double_ratchet = Some(e.dr)],
     rng |-> rng,
     message |-> IF e.ok
                 THEN Some(RegularMessage(PublicKey(self.x3dh.identity_key), e.message))
                 ELSE None]

StubEncrypt(self, rng, plaintext) ==
    StubSent(self, rng, DREncrypt(Unwrap(self.double_ratchet), plaintext, StubAD))

\* the harness has the agent of `self` decrypt: r is what
\* attempt_message_decryption returned
StubReceived(self, r) ==
    ClientResult(r.kind, r.err, [self EXCEPT !.double_ratchet = Some(r.dr)],
                 r.plaintext, r.rng)

StubDecrypt(self, rng, message) ==
    StubReceived(self,
        DRAttempt(Unwrap(self.double_ratchet), rng, message.message, StubAD))

StubHanded(c, p, s) ==
    Delivered(c, p, s, Peer(c),
        StubDecrypt(client[Peer(c)], csprng[Peer(c)], Unwrap(s.message)))

\* c encrypts p and the peer decrypts the message at once
StubDeliver(c, p) == StubHanded(c, p, StubEncrypt(client[c], csprng[c], p))

RECURSIVE StubRun(_, _)
\* k calls of encrypt_message in a row
StubRun(x, k) ==
    IF k = 0 \/ x.kind # "ok"
    THEN x
    ELSE StubRun(RunStep(x, StubEncrypt(x.client, x.rng, <<>>)), k - 1)

\* c encrypts k messages and the harness drops them all
StubDropRun(c, k) ==
    DroppedRun(c, k,
        StubRun([kind |-> "ok", client |-> client[c], rng |-> csprng[c],
                 emitted |-> emitted[c]], k))

\* The harness of exchange_multiple_double_ratchet_messages: Alice's first
\* message is delivered, then either agent encrypts and each message is
\* delivered at once or dropped.
NextDR ==
    \/ \E c \in Clients :
          /\ sends[c] < MaxRunSends
          /\ recvs < MaxRunRecv
          /\ TotalSends = 0 => c = "alice"
          /\ StubDeliver(c, Payload(c))
    \/ \E c \in Clients, k \in DropRuns :
          /\ TotalSends > 0
          /\ sends[c] + k <= MaxRunSends
          /\ drops[c] = 0
          /\ StubDropRun(c, k)

SpecDR == InitDR /\ [][NextDR]_vars

\* c encrypts p and the harness keeps the message for later
StubHold(c, p) == Held(c, p, StubEncrypt(client[c], csprng[c], p))

\* the harness hands the held message i to its receiver, for the first time
\* or again
StubReceive(i) ==
    Received(i, "none", wire[i].msg,
             StubDecrypt(client[wire[i].to], csprng[wire[i].to], wire[i].msg))

\* the harness hands over the held message i with its ciphertext changed;
\* it does so for a message whose key the receiver has stored
StubReceiveGarbled(i) ==
    Received(i, "ciphertext", Tamper(wire[i].msg, "ciphertext"),
             StubDecrypt(client[wire[i].to], csprng[wire[i].to],
                         Tamper(wire[i].msg, "ciphertext")))

\* the length of a run of dropped messages after a held one: the next
\* message is MAX_SKIP positions ahead of the held one
OrderRuns == {MAX_SKIP - 1}

\* The harness when it also keeps messages back and hands them over in any
\* order, any number of times: Alice's first message is delivered, then
\* either agent encrypts once it has a sending chain key.
NextOrder ==
    \/ \E c \in Clients :
          /\ recvs < MaxOrderRecv
          /\ TotalSends = 0 => c = "alice"
          /\ Unwrap(client[c].double_ratchet).sending_chain_key # None
          /\ StubDeliver(c, Payload(c))
    \/ \E c \in Clients :
          /\ TotalSends > 0
          /\ Len(wire) < MaxOrderWire
          /\ Unwrap(client[c].double_ratchet).sending_chain_key # None
          /\ StubHold(c, Payload(c))
    \/ \E i \in 1..Len(wire) :
          /\ recvs < MaxOrderRecv
          /\ StubReceive(i)
    \/ \E i \in 1..Len(wire) :
          /\ recvs < MaxOrderRecv
          /\ MapHas(Unwrap(client[wire[i].to].double_ratchet).skipped_messages,
                    SkippedKey(wire[i].msg.message.header.ratchet_public_key,
                               wire[i].msg.message.header.sent_count))
          /\ StubReceiveGarbled(i)
    \/ \E c \in Clients, k \in OrderRuns :
          /\ sends[c] < MAX_SKIP - 1
          /\ last.op = "send" /\ last.sender = c /\ ~last.delivered
          /\ Unwrap(client[c].double_ratchet).sending_chain_key # None
          /\ StubDropRun(c, k)

SpecOrder == InitDR /\ [][NextOrder]_vars

\* the call s of create_message returned an error: there is no message
Refused(c, p, s) ==
    /\ s.kind = "err"
    /\ client' = [client EXCEPT ![c] = s.client]
    /\ csprng' = [csprng EXCEPT ![c] = s.rng]
    /\ sends' = [sends EXCEPT ![c] = @ + 1]
    /\ last' = [NoCall EXCEPT !.op = "send", !.sender = c,
                    !.sender_pre = Some(client[c]), !.msg = s.message,
                    !.content = p, !.created = s.kind, !.drops_pre = drops[c]]
    /\ UNCHANGED <<wire, recvs, drops, emitted, discarded, opened>>
    /\ UNCHANGED driverVars

\* c calls create_message with a content the AEAD refuses
SendOversize(c) == Refused(c, Oversize, Create(c, Oversize))

\* Either party sends; a message is delivered at once, and a content may be
\* too long to encrypt.
NextLong ==
    \/ \E c \in Clients :
          /\ TotalSends < MaxLongSends
          /\ recvs < MaxLongRecv
          /\ SendDeliver(c, Payload(c))
    \/ \E c \in Clients :
          /\ TotalSends < MaxLongSends
          /\ SendOversize(c)

SpecLong == Init /\ [][NextLong]_vars

(***************************************************************************)
(* mizu-driver: the Drivers of alice and bob, each with its own database,  *)
(* over one transport, as create_drivers sets them up: both identities are *)
(* generated and published and each user has the other as its contact.     *)
(***************************************************************************)
\* generate_identity: the X3DHClient in the identities row of c
Identity(c) == X3DHClientNew([owner |-> c, next |-> 0]).x3dh

\* retrieve_tezos_data: the keys published under an address
TezosData(address) ==
    [identity_key |-> PublicKey(Identity(address).identity_key),
     prekey |-> PublicKey(Identity(address).prekey)]

\* find_or_create_client: the clients row of c deserialized, or a new Client
\* from the identity of c with no timestamp
find_or_create_client(c) ==
    IF clients[c] = None
    THEN [client |-> Some(ClientNew(Identity(c), Info(c), Info(Peer(c)))),
          latest_message_timestamp |-> None]
    ELSE [client |-> DeserializeClient(Unwrap(clients[c]).client_data),
          latest_message_timestamp |-> Unwrap(clients[c]).latest_message_timestamp]

\* MizuConnection::upsert_client
upsert_client(c, self, latest_message_timestamp) ==
    [clients EXCEPT ![c] =
        Some([client_data |-> SerializeClient(self),
              latest_message_timestamp |-> latest_message_timestamp])]

\* what a call of the Driver returned
DriverCall(op, caller, status, returned) ==
    [op |-> op, caller |-> caller, status |-> status, returned |-> returned]

\* post_message after find_or_create_client: the plaintext row is written,
\* then s is what create_message returned (unwrapped: anything but Ok is a
\* panic), then the payload is posted and the Client saved; io names the
\* write that fails, if any
Posted(c, text, io, latest_message_timestamp, s) ==
    /\ messages' = [messages EXCEPT ![c] =
                       Append(@, [content |-> text, my_message |-> TRUE])]
    /\ csprng' = [csprng EXCEPT ![c] = s.rng]
    /\ sends' = [sends EXCEPT ![c] = @ + 1]
    /\ postal_box' = IF s.kind = "ok" /\ io # "TezosWrite"
                     THEN [postal_box EXCEPT ![c] =
                              Append(@, [timestamp |-> now,
                                         content |-> SerializeMessage(Unwrap(s.message))])]
                     ELSE postal_box
    /\ clients' = IF s.kind = "ok" /\ io = "ok"
                  THEN upsert_client(c, s.client, latest_message_timestamp)
                  ELSE clients
    /\ last' = DriverCall("post_message", c,
                          IF s.kind # "ok" THEN "panic" ELSE io, <<>>)
    /\ UNCHANGED <<client, wire, recvs, drops, emitted, discarded, opened, now, fed>>

PostFound(c, text, io, found) ==
    IF found.client = None
    THEN /\ last' = DriverCall("post_message", c, "InvalidClient", <<>>)
         /\ UNCHANGED <<client, csprng, wire, sends, recvs, drops, emitted, discarded,
                        opened, driverVars>>
    ELSE Posted(c, text, io, found.latest_message_timestamp,
                create_message(Unwrap(found.client), csprng[c],
                               TezosData(Peer(c)).identity_key,
                               TezosData(Peer(c)).prekey, text))

\* Driver::post_message of c to its contact
post_message(c, text, io) == PostFound(c, text, io, find_or_create_client(c))

\* one entry of the loop of get_messages was handed to the Client, whose
\* call returned r; x is the state of the loop
Handled(x, i, r) ==
    IF r.kind = "panic"
    THEN [x EXCEPT !.status = "panic", !.fed = Append(@, i)]
    ELSE [x EXCEPT !.client = r.client, !.rng = r.rng, !.fed = Append(@, i),
                   !.rows = IF r.kind = "ok"
                            THEN Append(@, [content |-> r.plaintext, my_message |-> FALSE])
                            ELSE @,
                   !.messages = IF r.kind = "ok" THEN Append(@, r.plaintext) ELSE @]

\* one turn of the loop of get_messages on the entry i of the postal box
Entry(x, i, entry) ==
    IF x.latest_message_timestamp # None
       /\ Unwrap(x.latest_message_timestamp) >= entry.timestamp
    THEN x
    ELSE IF DeserializeMessage(entry.content) = None
    THEN [x EXCEPT !.status = "InvalidMessage",
                   !.latest_message_timestamp = Some(entry.timestamp)]
    ELSE Handled([x EXCEPT !.latest_message_timestamp = Some(entry.timestamp)], i,
                 attempt_message_decryption(x.client, x.rng,
                     Unwrap(DeserializeMessage(entry.content))))

RECURSIVE Entries(_, _, _)
\* the loop of get_messages from the entry i on; an error ends it
Entries(x, i, box) ==
    IF i > Len(box) \/ x.status # "ok"
    THEN x
    ELSE Entries(Entry(x, i, box[i]), i + 1, box)

\* get_messages after its loop ended in x: the rows of the decrypted
\* entries are written already; the Client and the timestamp are saved when
\* the loop ran to its end; io names the write that fails, if any
Got(c, io, x) ==
    /\ messages' = [messages EXCEPT ![c] = @ \o x.rows]
    /\ csprng' = [csprng EXCEPT ![c] = x.rng]
    /\ recvs' = recvs + Len(x.fed)
    /\ fed' = [fed EXCEPT ![c] = @ \o x.fed]
    /\ clients' = IF x.status = "ok" /\ io = "ok"
                  THEN upsert_client(c, x.client, x.latest_message_timestamp)
                  ELSE clients
    /\ last' = DriverCall("get_messages", c,
                          IF x.status # "ok" THEN x.status ELSE io,
                          IF x.status = "ok" /\ io = "ok" THEN x.messages ELSE <<>>)
    /\ UNCHANGED <<client, wire, sends, drops, emitted, discarded, opened, postal_box,
                   now>>

GetFound(c, io, found) ==
    IF found.client = None
    THEN /\ last' = DriverCall("get_messages", c, "InvalidClient", <<>>)
         /\ UNCHANGED <<client, csprng, wire, sends, recvs, drops, emitted, discarded,
                        opened, driverVars>>
    ELSE Got(c, io,
             Entries([status |-> "ok", client |-> Unwrap(found.client),
                      rng |-> csprng[c],
                      latest_message_timestamp |-> found.latest_message_timestamp,
                      rows |-> <<>>, messages |-> <<>>, fed |-> <<>>],
                     1, postal_box[Peer(c)]))

\* Driver::get_messages of c for its contact
get_messages(c, io) == GetFound(c, io, find_or_create_client(c))

\* Tezos::post called with bytes that are no serialized Message
PostBytes(c, bytes) ==
    /\ postal_box' = [postal_box EXCEPT ![c] =
                         Append(@, [timestamp |-> now, content |-> bytes])]
    /\ last' = DriverCall("post", c, "ok", <<>>)
    /\ UNCHANGED <<client, csprng, wire, sends, recvs, drops, emitted, discarded,
                   opened, clients, messages, now, fed>>

\* test::wait: the next entry gets a later timestamp
Wait ==
    /\ now' = now + 1
    /\ last' = DriverCall("wait", "", "ok", <<>>)
    /\ UNCHANGED <<client, csprng, wire, sends, recvs, drops, emitted, discarded,
                   opened, postal_box, clients, messages, fed>>

\* The two Drivers when every write succeeds: either user posts, reads the
\* postal box of its contact, or lets time pass.
NextDriver ==
    \/ \E c \in Clients :
          /\ TotalSends < MaxPosts
          /\ post_message(c, Payload(c), "ok")
    \/ \E c \in Clients :
          /\ recvs < MaxFed
          /\ get_messages(c, "ok")
    \/ /\ now < MaxClock
       /\ Wait

SpecDriver == Init /\ [][NextDriver]_vars

\* c has handed every entry of its contact's postal box to its Client
InTurn(c) ==
    \A i \in 1..Len(postal_box[Peer(c)]) : \E j \in 1..Len(fed[c]) : fed[c][j] = i

\* the next entry of c gets a later timestamp than its last one
LaterStamp(c) ==
    IF postal_box[c] = <<>>
    THEN TRUE
    ELSE postal_box[c][Len(postal_box[c])].timestamp < now

\* The conversation of test_smoke_1 at any length: a user posts when it has
\* read what its contact posted, and waits between its posts.
NextTurns ==
    \/ \E c \in Clients :
          /\ TotalSends < MaxTurnPosts
          /\ InTurn(c)
          /\ LaterStamp(c)
          /\ post_message(c, Payload(c), "ok")
    \/ \E c \in Clients :
          /\ recvs < MaxFed
          /\ get_messages(c, "ok")
    \/ /\ \E c \in Clients : ~LaterStamp(c)
       /\ Wait

SpecTurns == Init /\ [][NextTurns]_vars

\* bytes bincode reads no Message from: an unknown variant index
Undecodable == {<<2>>}

\* The two Drivers when writes may fail and a postal box may hold entries
\* that are no serialized Message.
NextFaulty ==
    \/ \E c \in Clients, io \in {"ok", "TezosWrite", "UserData"} :
          /\ TotalSends < MaxFaultyPosts
          /\ post_message(c, Payload(c), io)
    \/ \E c \in Clients, io \in {"ok", "UserData"} :
          /\ recvs < MaxFaultyFed
          /\ get_messages(c, io)
    \/ \E c \in Clients, bytes \in Undecodable :
          /\ Len(postal_box[c]) < MaxBox
          /\ PostBytes(c, bytes)
    \/ /\ \E c \in Clients : ~LaterStamp(c)
       /\ Wait

SpecFaulty == Init /\ [][NextFaulty]_vars

(***************************************************************************)
(* Properties                                                              *)
(***************************************************************************)
\* the DoubleRatchetMessage carried inside an X3DH envelope
Inner(m) == Unwrap(Deserialize(m.ciphertext[1].msg))

\* the last step delivered the message it created to the peer
DeliveredAtOnce == last.op = "send" /\ last.delivered

Decrypted == last.kind = "ok" /\ last.plaintext = last.content

\* C1: after the first message of the run was delivered, every message that
\* is delivered at once decrypts to the plaintext given at its send, as long
\* as no more than MAX_SKIP messages in a row were dropped in a direction.
C1_DeliveredDecrypts ==
    (/\ DeliveredAtOnce
     /\ TotalSends > 1
     /\ opened
     /\ last.drops_pre <= MAX_SKIP
     /\ \A c \in Clients : drops[c] <= MAX_SKIP)
    => Decrypted

\* C2: the first message a fresh client creates for a fresh peer with
\* mirrored our_info / their_info is decrypted by the peer to its plaintext.
C2_FirstMessageDecrypts ==
    (DeliveredAtOnce /\ TotalSends = 1) => Decrypted

C2_Witness ==
    /\ DeliveredAtOnce
    /\ TotalSends = 1
    /\ Unwrap(last.sender_pre).their_info = Unwrap(last.receiver_pre).our_info
    /\ Unwrap(last.sender_pre).our_info = Unwrap(last.receiver_pre).their_info
    /\ last.content = <<7>>
    /\ last.plaintext = <<7>>

\* C8: while the initiator's handshake is unacknowledged, once the responder
\* has decrypted one of its X3DH envelopes, every later X3DH envelope of the
\* initiator that is delivered decrypts to its plaintext.
C8_LaterEnvelopesDecrypt ==
    (/\ DeliveredAtOnce
     /\ Unwrap(last.msg).kind = "X3DH"
     /\ Unwrap(last.sender_pre).unacknowledged_x3dh # None
     /\ Unwrap(last.receiver_pre).double_ratchet # None
     /\ Unwrap(Unwrap(last.receiver_pre).double_ratchet).root_key.sk
           = Unwrap(Unwrap(last.sender_pre).unacknowledged_x3dh).secret_key)
    => Decrypted

\* C9: when the initiator's first k messages (1 <= k <= MAX_SKIP) were all
\* dropped and the next one reaches a responder without a Double Ratchet, it
\* decrypts to its plaintext and the responder ends with a Double Ratchet
\* and an empty unacknowledged slot.
C9_LostHandshake ==
    (/\ DeliveredAtOnce
     /\ Unwrap(last.receiver_pre).double_ratchet = None
     /\ last.drops_pre >= 1
     /\ last.drops_pre <= MAX_SKIP
     /\ sends[last.sender] = last.drops_pre + 1)
    => /\ Decrypted
       /\ client[last.receiver].double_ratchet # None
       /\ client[last.receiver].unacknowledged_x3dh = None

C9_Witness ==
    /\ DeliveredAtOnce
    /\ Unwrap(last.receiver_pre).double_ratchet = None
    /\ last.drops_pre = MAX_SKIP
    /\ sends[last.sender] = MAX_SKIP + 1
    /\ Inner(Unwrap(last.msg)).header.sent_count = MAX_SKIP
    /\ Decrypted
    /\ Cardinality(Unwrap(client[last.receiver].double_ratchet).skipped_messages) = MAX_SKIP

\* the last step handed a message to attempt_message_decryption
Attempted == last.delivered

Receiver == client[last.receiver]
ReceiverBefore == Unwrap(last.receiver_pre)
Sender == client[last.sender]
SenderBefore == Unwrap(last.sender_pre)
Message == Unwrap(last.msg)

\* C3: when Client::attempt_message_decryption returns an error, the Client
\* (X3DH keys, Double Ratchet slot, our_info, their_info, unacknowledged
\* slot) is as it was before the call.
C3_ErrorKeepsClient ==
    (Attempted /\ last.kind = "err") => Receiver = ReceiverBefore

C3_Witness ==
    /\ Attempted
    /\ last.kind = "err"
    /\ last.err = "Deserialization"
    /\ Message.kind = "X3DH"
    /\ ReceiverBefore.double_ratchet # None
    /\ ReceiverBefore.unacknowledged_x3dh # None
    /\ Receiver.unacknowledged_x3dh # None

C5_UnackImpliesAgent ==
    /\ \A c \in Clients :
          client[c].unacknowledged_x3dh # None => client[c].double_ratchet # None
    /\ last.created # "panic"

C5_Witness ==
    /\ Attempted
    /\ last.kind = "err"
    /\ Receiver.unacknowledged_x3dh # None
    /\ Receiver.double_ratchet # None

\* the last step called create_message
Created == last.op = "send" /\ last.created = "ok"

\* C6: create_message picks the envelope from the two slots: both empty, it
\* runs X3DH, initiates the Double Ratchet, returns an X3DH envelope and
\* fills both slots; agent without unacknowledged pair, it returns a Regular
\* envelope with its own identity key and leaves the slot empty; both set,
\* it returns an X3DH envelope and keeps the slot.
C6_EnvelopeByState ==
    Created =>
       LET has_agent == SenderBefore.double_ratchet # None
           has_unack == SenderBefore.unacknowledged_x3dh # None
       IN  /\ (~has_agent /\ ~has_unack) =>
                /\ Message.kind = "X3DH"
                /\ Sender.double_ratchet # None
                /\ Sender.unacknowledged_x3dh # None
                /\ Message.ephemeral_key =
                      Unwrap(Sender.unacknowledged_x3dh).ephemeral_public_key
                /\ Message.ciphertext[1].key =
                      X3DHEnvelopeKey(Unwrap(Sender.unacknowledged_x3dh).secret_key)
                /\ Unwrap(Sender.double_ratchet).root_key.sk =
                      Unwrap(Sender.unacknowledged_x3dh).secret_key
                /\ Unwrap(Sender.double_ratchet).sent_count = 1
                /\ Unwrap(Sender.double_ratchet).receiving_chain_key = None
           /\ (has_agent /\ ~has_unack) =>
                /\ Message.kind = "Regular"
                /\ Message.identity_key = PublicKey(SenderBefore.x3dh.identity_key)
                /\ Sender.unacknowledged_x3dh = None
           /\ (has_agent /\ has_unack) =>
                /\ Message.kind = "X3DH"
                /\ Sender.unacknowledged_x3dh = SenderBefore.unacknowledged_x3dh

C6_Witness ==
    /\ Created
    /\ SenderBefore.double_ratchet # None
    /\ SenderBefore.unacknowledged_x3dh # None
    /\ Message.kind = "X3DH"
    /\ \E c \in Clients :
          client[c].double_ratchet # None /\ client[c].unacknowledged_x3dh = None
             /\ sends[c] > 0

\* C7: every X3DH envelope a client produces carries the ephemeral key of
\* its first envelope and is keyed by the same stored X3DH secret, and the
\* inner headers count N_s = 0, 1, 2, ... under one ratchet public key.
C7_RetransmitSameHandshake ==
    (Created /\ Message.kind = "X3DH") =>
       LET first == Unwrap(emitted[last.sender].first)
       IN  /\ Message.ephemeral_key = first.ephemeral_key
           /\ Message.ciphertext[1].key = first.ciphertext[1].key
           /\ Message.ciphertext[1].key =
                 X3DHEnvelopeKey(Unwrap(Sender.unacknowledged_x3dh).secret_key)
           /\ Inner(Message).header.ratchet_public_key =
                 Inner(first).header.ratchet_public_key
           /\ Inner(Message).header.sent_count = emitted[last.sender].count - 1

C7_Witness ==
    /\ Created
    /\ Message.kind = "X3DH"
    /\ emitted[last.sender].count = 3
    /\ Inner(Message).header.sent_count = 2
    /\ Message # Unwrap(emitted[last.sender].first)

\* the ratchet keys a Regular message was encrypted between: the DH output
\* last mixed into the root key its chain was derived from
Against(m) ==
    LET steps == m.message.ciphertext[1].key.ck.base.steps
    IN  steps[Len(steps)]

\* C10: a successful decryption of an X3DH envelope leaves the receiver with
\* a fresh responder-mode agent built from that envelope and an empty
\* unacknowledged slot, whatever agent it had; an envelope decrypted before
\* is decrypted again; and a message the peer encrypted to the sending
\* ratchet key of a replaced agent fails to decrypt.
C10_EnvelopeReplacesAgent ==
    /\ (Attempted /\ Message.kind = "X3DH" /\ last.kind = "ok") =>
          LET agent == Unwrap(Receiver.double_ratchet)
              header == Inner(Message).header
              ratchet_key == header.ratchet_public_key
          IN  /\ Receiver.unacknowledged_x3dh = None
              /\ agent.root_key.sk = Message.ciphertext[1].key.x3dh
              /\ agent.root_key.steps =
                    <<DH(Receiver.x3dh.prekey, ratchet_key),
                      DH(agent.sending_ratchet_keypair, ratchet_key)>>
              /\ agent.receiving_ratchet_key = Some(ratchet_key)
              /\ agent.sent_count = 0
              /\ agent.previous_sending_chain_count = 0
              /\ agent.received_count = header.sent_count + 1
              /\ {e.key : e \in agent.skipped_messages} =
                    {SkippedKey(ratchet_key, n) : n \in 0..(header.sent_count - 1)}
    /\ (Attempted /\ Message.kind = "X3DH" /\ last.again) => Decrypted
    /\ (/\ Attempted
        /\ Message.kind = "Regular"
        /\ Against(Message) \cap discarded[last.receiver] # {})
       => last.kind = "err"

\* the same envelope was decrypted twice, the second time replacing an
\* agent the peer had answered to, and the peer's next message is lost
C10_Witness ==
    /\ Attempted
    /\ Message.kind = "Regular"
    /\ Against(Message) \cap discarded[last.receiver] # {}
    /\ last.kind = "err"
    /\ \E i \in 1..Len(wire) :
          /\ wire[i].msg.kind = "X3DH"
          /\ wire[i].to = last.receiver
          /\ wire[i].decrypted >= 2

\* the run of test_async_x3dh_inconsistency: Alice created two X3DH
\* envelopes, Bob created his own, Alice decrypted Bob's and created a third
\* message
AsyncRun ==
    /\ Len(wire) = 4
    /\ wire[1].to = "bob" /\ wire[1].msg.kind = "X3DH"
    /\ wire[2].to = "bob" /\ wire[2].msg.kind = "X3DH"
    /\ wire[3].to = "alice" /\ wire[3].msg.kind = "X3DH"
    /\ wire[4].to = "bob" /\ wire[4].msg.kind = "Regular"

\* C11: when both parties created their X3DH first message before receiving
\* the other's (Alice an X3DH message and a second message, Bob his X3DH
\* message, Alice decrypts Bob's and creates a third), every message is
\* decrypted by the peer when delivered in per-sender order.
C11_SimultaneousInitiation ==
    (AsyncRun /\ Attempted) => Decrypted

\* the Double Ratchet header of the message handed over in the last step
Header ==
    IF Message.kind = "Regular" THEN Message.message.header ELSE Inner(Message).header

\* the agent the message of the last step is handed to: the Client's own for
\* a Regular envelope, a new responder for an X3DH envelope
Nr ==
    IF Message.kind = "Regular"
    THEN Unwrap(ReceiverBefore.double_ratchet).received_count
    ELSE 0

NewRatchetKey ==
    \/ Message.kind = "X3DH"
    \/ Some(Header.ratchet_public_key) #
          Unwrap(ReceiverBefore.double_ratchet).receiving_ratchet_key

StoredKey ==
    /\ Message.kind = "Regular"
    /\ MapHas(Unwrap(ReceiverBefore.double_ratchet).skipped_messages,
              SkippedKey(Header.ratchet_public_key, Header.sent_count))

\* an honest message reached a party that can look at its header
HeaderRead ==
    /\ DeliveredAtOnce
    /\ Message.kind = "Regular" => ReceiverBefore.double_ratchet # None
    /\ ~StoredKey

\* more than MAX_SKIP keys to skip in the old chain or in the new one
Overflow ==
    IF NewRatchetKey
    THEN \/ Header.previous_sending_chain_count > Nr + MAX_SKIP
         \/ Header.sent_count > MAX_SKIP
    ELSE Header.sent_count > Nr + MAX_SKIP

\* C12: a header with PN or N_s above N_r + MAX_SKIP is answered with
\* TooManySkippedMessages and the receiver is left as it was; a message of
\* the current chain that needs exactly MAX_SKIP skipped keys is accepted; a
\* sender's message number MAX_SKIP + 2, the only one delivered, is rejected
\* with TooManySkippedMessages.
C12_MaxSkipGate ==
    /\ (HeaderRead /\ Overflow) =>
          /\ last.kind = "err"
          /\ last.err = "TooManySkippedMessages"
          /\ Receiver = ReceiverBefore
    /\ (/\ HeaderRead
        /\ Message.kind = "Regular"
        /\ ~NewRatchetKey
        /\ Header.sent_count = Nr + MAX_SKIP)
       => /\ Decrypted
          /\ Cardinality(Unwrap(Receiver.double_ratchet).skipped_messages) =
                Cardinality(Unwrap(ReceiverBefore.double_ratchet).skipped_messages)
                   + MAX_SKIP
    /\ (/\ DeliveredAtOnce
        /\ recvs = 1
        /\ sends[last.sender] = MAX_SKIP + 2
        /\ sends[last.receiver] = 0)
       => last.kind = "err" /\ last.err = "TooManySkippedMessages"

C12_Witness ==
    /\ HeaderRead
    /\ Message.kind = "Regular"
    /\ ~NewRatchetKey
    /\ Header.sent_count = Nr + MAX_SKIP + 1
    /\ last.err = "TooManySkippedMessages"
    /\ Receiver = ReceiverBefore

\* the sender began a new sending chain after one of which the receiver
\* missed more than MAX_SKIP messages and rejected a delivered one: of the
\* PN messages of that chain the receiver has read N_r, a run of dropped
\* messages is at most MAX_SKIP + 1 long, so at least one of the other
\* PN - N_r - (MAX_SKIP + 1) was delivered and rejected
AfterOverflow ==
    /\ HeaderRead
    /\ Message.kind = "Regular"
    /\ NewRatchetKey
    /\ drops[last.sender] > MAX_SKIP
    /\ Header.previous_sending_chain_count >= Nr + MAX_SKIP + 2

\* C13: after a message was rejected with TooManySkippedMessages because
\* more than MAX_SKIP messages of one sending chain were lost, the messages
\* the sender creates after its next DH ratchet step are decrypted when
\* delivered.
C13_RecoveryAfterOverflow ==
    AfterOverflow => Decrypted

\* C14: between an initiator and a responder made from the same secret and
\* the responder's prekey, with the initiator's first message delivered,
\* every message that is delivered at once decrypts to the plaintext it was
\* encrypted from, as long as no run of more than MAX_SKIP messages was
\* dropped.
C14_DoubleRatchetDelivers ==
    (/\ DeliveredAtOnce
     /\ last.drops_pre <= MAX_SKIP
     /\ \A c \in Clients : drops[c] <= MAX_SKIP)
    => Decrypted

C14_Witness ==
    /\ DeliveredAtOnce
    /\ last.drops_pre = MAX_SKIP
    /\ sends[Peer(last.sender)] > 0
    /\ NewRatchetKey
    /\ Decrypted

\* an honest Regular message reached an initiator that has no receiving
\* chain yet, after the sender's first j messages (1 <= j <= MAX_SKIP) were
\* lost
FirstReplyLost ==
    /\ DeliveredAtOnce
    /\ Message.kind = "Regular"
    /\ ReceiverBefore.double_ratchet # None
    /\ Unwrap(ReceiverBefore.double_ratchet).receiving_chain_key = None
    /\ Header.sent_count \in 1..MAX_SKIP

SkippedKeys(dr) == {e.key : e \in dr.skipped_messages}

\* C15: when the responder's first j messages (1 <= j <= MAX_SKIP) are
\* dropped and its next message is delivered, the initiator, which has no
\* receiving chain yet, performs the DH ratchet, stores the j skipped keys
\* and decrypts the delivered message to its plaintext.
C15_LostFirstReply ==
    FirstReplyLost =>
        /\ Decrypted
        /\ Unwrap(Receiver.double_ratchet).receiving_ratchet_key =
               Some(Header.ratchet_public_key)
        /\ Unwrap(Receiver.double_ratchet).sending_ratchet_keypair #
               Unwrap(ReceiverBefore.double_ratchet).sending_ratchet_keypair
        /\ Unwrap(Receiver.double_ratchet).received_count = Header.sent_count + 1
        /\ SkippedKeys(Unwrap(Receiver.double_ratchet)) =
               {SkippedKey(Header.ratchet_public_key, n) :
                    n \in 0..(Header.sent_count - 1)}

C15_Witness ==
    /\ FirstReplyLost
    /\ Header.sent_count = MAX_SKIP
    /\ last.drops_pre = MAX_SKIP
    /\ Cardinality(Unwrap(Receiver.double_ratchet).skipped_messages) = MAX_SKIP
    /\ Decrypted

\* the Double Ratchet agent of c
Agent(c) == Unwrap(client[c].double_ratchet)

\* the keypair k was drawn from c's generator in this step
DrawnNow(c, k) ==
    /\ k[1] = c
    /\ csprng[c].next <= k[2]
    /\ k[2] < csprng'[c].next

\* c produced a message in this step
Produces(c) == last'.op = "send" /\ last'.sender = c /\ last'.created = "ok"

\* c's agent was replaced in this step by the responder an X3DH envelope made
Replaced(c) ==
    /\ last'.delivered
    /\ last'.receiver = c
    /\ last'.kind = "ok"
    /\ Unwrap(last'.msg).kind = "X3DH"

\* the message c produced carries the agent's ratchet public key and N_s,
\* and the agent's N_s went up by one under the same keypair; a new agent
\* starts at N_s = 0 under a keypair drawn for it
CountedSend(c) ==
    /\ Header'.ratchet_public_key = PublicKey(Agent(c)'.sending_ratchet_keypair)
    /\ Agent(c)'.sent_count = Header'.sent_count + 1
    /\ IF client[c].double_ratchet = None
       THEN /\ Header'.sent_count = 0
            /\ DrawnNow(c, Agent(c)'.sending_ratchet_keypair)
       ELSE /\ Header'.sent_count = Agent(c).sent_count
            /\ Agent(c)'.sending_ratchet_keypair = Agent(c).sending_ratchet_keypair

\* outside encrypt_message, N_s of an agent stays as it is under the same
\* keypair, or goes to 0 together with a keypair drawn in this step
CountKept(c) ==
    \/ /\ Agent(c)'.sending_ratchet_keypair = Agent(c).sending_ratchet_keypair
       /\ Agent(c)'.sent_count = Agent(c).sent_count
    \/ /\ Agent(c)'.sent_count = 0
       /\ DrawnNow(c, Agent(c)'.sending_ratchet_keypair)

CountStep(c) ==
    IF Produces(c)
    THEN CountedSend(c)
    ELSE (client[c].double_ratchet # None /\ ~Replaced(c)) => CountKept(c)

\* C16: the messages of one agent under one sending ratchet key carry
\* N_s = 0, 1, 2, ... in creation order, and N_s goes back to 0 only
\* together with a fresh sending ratchet keypair, so no two messages of one
\* agent share the pair (ratchet public key, N_s).
C16_CountsPerRatchetKey == [][\A c \in Clients : CountStep(c)]_vars

\* a message with N_s = 0 of a new sending chain, after a chain of at least
\* one message
C16_Witness ==
    /\ last.op = "send"
    /\ last.created = "ok"
    /\ Header.sent_count = 0
    /\ Header.previous_sending_chain_count >= 1
    /\ SenderBefore.double_ratchet # None
    /\ Unwrap(SenderBefore.double_ratchet).sent_count = 0
    /\ Unwrap(Sender.double_ratchet).sent_count = 1

\* a Regular envelope reached a Client that has no Double Ratchet agent
RegularWithoutAgent ==
    /\ Attempted
    /\ Message.kind = "Regular"
    /\ ReceiverBefore.double_ratchet = None

\* C17: a Regular envelope handed to a Client that has no Double Ratchet is
\* rejected with UnreadableDoubleRatchetMessage, whatever its content, and
\* the Client is as it was before the call.
C17_RegularWithoutAgent ==
    RegularWithoutAgent =>
        /\ last.kind = "err"
        /\ last.err = "UnreadableDoubleRatchetMessage"
        /\ Receiver = ReceiverBefore

C17_Witness ==
    /\ RegularWithoutAgent
    /\ last.tamper = "forged"
    /\ Header.sent_count > 0
    /\ last.err = "UnreadableDoubleRatchetMessage"
    /\ Receiver = ReceiverBefore

\* the changes to an honest message the network made before delivery
Alterations ==
    {"ciphertext", "identity_key", "ratchet_key", "ratchet_key_prekey", "sent_count",
     "previous_count"}

\* C18: when the ciphertext, a Double Ratchet header field (ratchet public
\* key, PN, N_s) or the sender identity key of an honestly created message
\* was altered before delivery, attempt_message_decryption returns an error
\* and the receiver is as it was before the call.
C18_TamperingRejected ==
    (Attempted /\ last.tamper \in Alterations) =>
        /\ last.kind = "err"
        /\ Receiver = ReceiverBefore

\* every message so far was delivered to the peer before the next send
Lockstep == DeliveredAtOnce /\ TotalSends = recvs

\* the agents of the sender and of the receiver of the last message
SendingAgent == Unwrap(Sender.double_ratchet)
ReceivingAgent == Unwrap(Receiver.double_ratchet)

\* C19: when every message is delivered before the next send, the receiving
\* chain key the receiver holds for the sender's ratchet public key equals
\* the sender's sending chain key, message for message; the root key the
\* receiver had right after deriving that chain is the sender's root key
\* (the receiver's own is one step further, to its new sending chain).
C19_RatchetKeyAgreement ==
    Lockstep =>
        /\ Sender.double_ratchet # None
        /\ Receiver.double_ratchet # None
        /\ ReceivingAgent.receiving_ratchet_key =
               Some(PublicKey(SendingAgent.sending_ratchet_keypair))
        /\ SendingAgent.sending_chain_key # None
        /\ ReceivingAgent.receiving_chain_key = SendingAgent.sending_chain_key
        /\ ReceivingAgent.received_count = SendingAgent.sent_count
        /\ ReceivingAgent.root_key =
               RootKdf(SendingAgent.root_key,
                       DH(ReceivingAgent.sending_ratchet_keypair,
                          PublicKey(SendingAgent.sending_ratchet_keypair))).root_key

\* the third message of an alternating run: a Regular message under a new
\* ratchet key
C19_Witness ==
    /\ Lockstep
    /\ recvs >= 3
    /\ Message.kind = "Regular"
    /\ NewRatchetKey
    /\ Unwrap(ReceiverBefore.double_ratchet).receiving_chain_key # None
    /\ ReceivingAgent.receiving_chain_key = SendingAgent.sending_chain_key
    /\ Decrypted

\* an X3DH envelope went from its maker straight to the peer
EnvelopeDelivered == DeliveredAtOnce /\ Message.kind = "X3DH"

\* what the receiver's X3DH agent makes of the envelope of the last step
EnvelopeOpened ==
    decrypt_initial_message(ReceiverBefore.x3dh, Message,
                            ReceiverBefore.their_info, ReceiverBefore.our_info)

\* C20: the secret the initiator got from derive_initial_keys against the
\* responder's identity key and prekey is the secret the responder gets from
\* decrypt_initial_message on the envelope construct_initial_message built,
\* and the responder recovers the enclosed plaintext, when both use the same
\* sender_info and receiver_info.
C20_X3DHAgreement ==
    EnvelopeDelivered =>
        /\ EnvelopeOpened.ok
        /\ EnvelopeOpened.secret_key = Unwrap(Sender.unacknowledged_x3dh).secret_key
        /\ EnvelopeOpened.plaintext = Message.ciphertext[1].msg
        /\ Deserialize(EnvelopeOpened.plaintext) # None

C20_Witness ==
    /\ EnvelopeDelivered
    /\ Sender.our_info = ReceiverBefore.their_info
    /\ Sender.their_info = ReceiverBefore.our_info
    /\ EnvelopeOpened.secret_key = Unwrap(Sender.unacknowledged_x3dh).secret_key
    /\ Message.ephemeral_key = Unwrap(Sender.unacknowledged_x3dh).ephemeral_public_key
    /\ Decrypted

\* an X3DH envelope that was not built for the keys of its receiver reached
\* it: junk, or an honest envelope with a key or the ciphertext altered
NotForReceiver ==
    /\ Attempted
    /\ Message.kind = "X3DH"
    /\ last.tamper \in {"junk", "ciphertext", "identity_key", "ephemeral_key"}

\* C21: decrypt_initial_message on an X3DH envelope that was not built for
\* the receiver's keys returns an error, never a plaintext, and the X3DH
\* agent is as it was.
C21_JunkEnvelopeRejected ==
    NotForReceiver =>
        /\ ~EnvelopeOpened.ok
        /\ last.kind = "err"
        /\ last.err = "AEADDecryption"
        /\ last.plaintext = <<>>
        /\ Receiver.x3dh = ReceiverBefore.x3dh

C21_Witness ==
    /\ NotForReceiver
    /\ last.tamper = "junk"
    /\ Message.ciphertext = StrayCiphertext
    /\ ~EnvelopeOpened.ok
    /\ Receiver = ReceiverBefore

\* the Double Ratchet ciphertext of the message of the last step
Ciphertext ==
    IF Message.kind = "Regular" THEN Message.message.ciphertext
    ELSE Inner(Message).ciphertext

\* the chain key the message key (and nonce) of that ciphertext came from
UsedChainKey == Ciphertext[1].key.ck

\* the root key b was derived from the root key a by further DH steps
Later(a, b) ==
    /\ a.sk = b.sk
    /\ Len(a.steps) < Len(b.steps)
    /\ SubSeq(b.steps, 1, Len(a.steps)) = a.steps

\* the message c produced is encrypted under the key of the sending chain
\* key the agent held, and the agent holds the next chain key afterwards
ChainUsedOnce(c) ==
    /\ Agent(c)'.sending_chain_key = Some(ChainKdf(UsedChainKey').chain_key)
    /\ Agent(c)'.sending_chain_key # Some(UsedChainKey')
    /\ client[c].double_ratchet # None =>
           Agent(c).sending_chain_key = Some(UsedChainKey')

\* outside encrypt_message the sending chain key stays, or is replaced by
\* the first key of a chain under a later root key
ChainKept(c) ==
    \/ Agent(c)'.sending_chain_key = Agent(c).sending_chain_key
    \/ /\ Unwrap(Agent(c)'.sending_chain_key).n = 0
       /\ Later(Agent(c).root_key, Unwrap(Agent(c)'.sending_chain_key).base)
       /\ Agent(c).sending_chain_key # None =>
              Later(Unwrap(Agent(c).sending_chain_key).base,
                    Unwrap(Agent(c)'.sending_chain_key).base)

ChainStep(c) ==
    IF Produces(c)
    THEN ChainUsedOnce(c)
    ELSE (client[c].double_ratchet # None /\ ~Replaced(c)) => ChainKept(c)

\* C22: each sending chain key yields one message key and is then advanced,
\* and a new sending chain starts from a later root key, so one agent
\* encrypts no two messages under the same message key and nonce.
C22_ChainKeyUsedOnce == [][\A c \in Clients : ChainStep(c)]_vars

\* the second message of a sending chain that began with a DH ratchet step
C22_Witness ==
    /\ last.op = "send"
    /\ last.created = "ok"
    /\ Message.kind = "Regular"
    /\ UsedChainKey.n = 1
    /\ Len(UsedChainKey.base.steps) >= 2
    /\ Unwrap(Sender.double_ratchet).sending_chain_key =
           Some(ChainKdf(UsedChainKey).chain_key)

\* the first X3DH envelope the sender of the last step ever produced
FirstEnvelope == Unwrap(emitted[last.sender].first)

\* C23: no two X3DH envelopes a Client produces with different plaintext
\* contents are encrypted under the same key and nonce.
C23_NoEnvelopeNonceReuse ==
    (/\ last.op = "send"
     /\ last.created = "ok"
     /\ Message.kind = "X3DH"
     /\ Message.ciphertext[1].msg # FirstEnvelope.ciphertext[1].msg)
    => Message.ciphertext[1].key # FirstEnvelope.ciphertext[1].key

\* create_message returned an error
CreateFailed == last.op = "send" /\ last.created = "err"

\* C24: when encrypt_message, and with it create_message, returns an
\* AEADEncryption error, the agent is as it was before the call: the same
\* sending chain key and the same N_s.
C24_EncryptErrorKeepsAgent ==
    CreateFailed => Sender = SenderBefore

\* the rows of c that hold received plaintexts
ReceivedRows(c) == {i \in 1..Len(messages[c]) : ~messages[c][i].my_message}

\* c has tried to decrypt an entry of its contact's postal box twice
FedTwice(c) == \E i, j \in 1..Len(fed[c]) : i # j /\ fed[c][i] = fed[c][j]

\* c holds a received plaintext in two rows
StoredTwice(c) ==
    \E i, j \in ReceivedRows(c) : i # j /\ messages[c][i].content = messages[c][j].content

\* C25: over any sequence of get_messages calls of a user for its contact,
\* calls that return an error included, no postal-box entry is passed to
\* attempt_message_decryption more than once and no received plaintext is
\* written to the message history more than once.
C25_NoEntryFedTwice == \A c \in Clients : ~FedTwice(c) /\ ~StoredTwice(c)

\* the plaintexts c posted, and those it received, in the order of its rows
SentTexts(c) ==
    [i \in 1..Len(SelectSeq(messages[c], LAMBDA row : row.my_message)) |->
        SelectSeq(messages[c], LAMBDA row : row.my_message)[i].content]
ReceivedTexts(c) ==
    [i \in 1..Len(SelectSeq(messages[c], LAMBDA row : ~row.my_message)) |->
        SelectSeq(messages[c], LAMBDA row : ~row.my_message)[i].content]

\* what the contact of c has posted since c last read
Pending(c) ==
    SubSeq(SentTexts(Peer(c)), Len(ReceivedTexts(c)) + 1, Len(SentTexts(Peer(c))))

\* a call of get_messages by c returns what its contact posted since c last
\* read, in posting order
ReturnsPending(c) ==
    (last'.op = "get_messages" /\ last'.caller = c)
        => (last'.status = "ok" /\ last'.returned = Pending(c))

\* C26: in a conversation in sequence, with distinct increasing timestamps,
\* get_messages returns exactly the messages the contact posted since the
\* last read, in posting order: the receiver gets m1..mk, and after its
\* reply the first sender gets that reply and none of its own messages.
C26_ConversationInSequence == [][\A c \in Clients : ReturnsPending(c)]_vars

\* a Message comes back from its bytes
MessageRoundTrip(m) == DeserializeMessage(SerializeMessage(m)) = Some(m)

\* the DoubleRatchetMessage of m comes back from its bytes; inside an X3DH
\* envelope it is the content the envelope was sealed over
InnerRoundTrip(m) ==
    IF m.kind = "X3DH"
    THEN /\ Deserialize(m.ciphertext[1].msg) # None
         /\ Serialize(Inner(m)) = m.ciphertext[1].msg
         /\ Deserialize(Serialize(Inner(m))) = Some(Inner(m))
    ELSE Deserialize(Serialize(m.message)) = Some(m.message)

\* the Client of c after serialize and deserialize
Restored(c) == DeserializeClient(SerializeClient(client[c]))

\* the restored Client of c creates the message the original would create,
\* and answers every message held for c as the original would
RestoredBehaves(c) ==
    /\ create_message(Unwrap(Restored(c)), csprng[c],
                      PublicKey(client[Peer(c)].x3dh.identity_key),
                      PublicKey(client[Peer(c)].x3dh.prekey), Payload(c))
       = Create(c, Payload(c))
    /\ \A i \in 1..Len(wire) :
          wire[i].to = c =>
              attempt_message_decryption(Unwrap(Restored(c)), csprng[c], wire[i].msg)
              = attempt_message_decryption(client[c], csprng[c], wire[i].msg)

SingleInitiator == \E c \in Clients : emitted[c].count = 0

\* C28: when only one party initiates and each party reads the messages for
\* it in the order they were created, none lost or repeated, every message
\* is decrypted to its plaintext however the two directions interleave.
C28_SingleInitiatorAsync == (Attempted /\ SingleInitiator) => Decrypted

\* C29: attempt_message_decryption never aborts: whatever message it is
\* handed, also one whose header carries the receiver's current receiving
\* ratchet key while the receiver has no receiving chain key, it returns a
\* plaintext or an error.
C29_DecryptionNeverAborts == Attempted => last.kind \in {"ok", "err"}

\* C30: an agent a Client holds has a sending chain key, so create_message
\* never aborts in encrypt_message for want of one.
C30_AgentHasSendingChain ==
    \A c \in Clients :
        client[c].double_ratchet # None
            => Unwrap(client[c].double_ratchet).sending_chain_key # None

\* a Client holds a responder agent, installed by an X3DH envelope, and has
\* created a message with it
C30_Witness ==
    /\ last.op = "send"
    /\ last.created = "ok"
    /\ Message.kind = "Regular"
    /\ SenderBefore.double_ratchet # None
    /\ Unwrap(SenderBefore.double_ratchet).sent_count = 0
    /\ Unwrap(SenderBefore.double_ratchet).received_count > 0

\* the agent a Regular message was handed to in the last step, before and
\* after the call
AgentBefore == Unwrap(ReceiverBefore.double_ratchet)
AgentAfter == Unwrap(Receiver.double_ratchet)

\* an agent decrypted the Regular message it was handed
AgentDecrypted ==
    /\ Attempted
    /\ last.kind = "ok"
    /\ Message.kind = "Regular"
    /\ ReceiverBefore.double_ratchet # None

\* what a DH ratchet step and the message counted after it leave behind
RatchetEffects ==
    /\ AgentAfter.previous_sending_chain_count = AgentBefore.sent_count
    /\ AgentAfter.sent_count = 0
    /\ AgentAfter.received_count = Header.sent_count + 1
    /\ AgentAfter.receiving_ratchet_key = Some(Header.ratchet_public_key)
    /\ AgentAfter.sending_ratchet_keypair # AgentBefore.sending_ratchet_keypair
    /\ AgentAfter.sending_ratchet_keypair[1] = last.receiver
    /\ AgentAfter.root_key =
           RootKdf(RootKdf(AgentBefore.root_key,
                           DH(AgentBefore.sending_ratchet_keypair,
                              Header.ratchet_public_key)).root_key,
                   DH(AgentAfter.sending_ratchet_keypair,
                      Header.ratchet_public_key)).root_key

\* no DH ratchet step was taken
NoRatchetEffects ==
    /\ AgentAfter.previous_sending_chain_count = AgentBefore.previous_sending_chain_count
    /\ AgentAfter.sent_count = AgentBefore.sent_count
    /\ AgentAfter.root_key = AgentBefore.root_key
    /\ AgentAfter.sending_ratchet_keypair = AgentBefore.sending_ratchet_keypair
    /\ AgentAfter.receiving_ratchet_key = AgentBefore.receiving_ratchet_key

\* C31 as stated: a DH ratchet step is taken exactly when the header's
\* ratchet key is not the agent's receiving ratchet key; a successful call
\* then leaves PN = old N_s, N_s = 0, N_r = header N_s + 1, the header's key
\* as receiving ratchet key, a new sending key pair and the root key
\* advanced twice; with an unchanged key it changes none of them.
C31_RatchetOnNewKey ==
    AgentDecrypted => IF NewRatchetKey THEN RatchetEffects ELSE NoRatchetEffects

\* C31, amended: the step is taken exactly when the header's ratchet key is
\* not the agent's receiving ratchet key and no skipped message key is
\* stored for the header's (ratchet key, N_s); a message of an earlier chain
\* whose key is stored is decrypted without a step.
C31_RatchetOnNewKeyNotStored ==
    AgentDecrypted =>
        IF NewRatchetKey /\ ~StoredKey THEN RatchetEffects ELSE NoRatchetEffects

\* an agent that has sent and received took a DH ratchet step
C31_Witness ==
    /\ AgentDecrypted
    /\ NewRatchetKey
    /\ ~StoredKey
    /\ AgentBefore.sent_count > 0
    /\ AgentBefore.receiving_chain_key # None
    /\ Header.sent_count > 0

\* an agent was handed a Regular message for whose (ratchet key, N_s) it has
\* a skipped message key
SkippedPath ==
    /\ Attempted
    /\ Message.kind = "Regular"
    /\ ReceiverBefore.double_ratchet # None
    /\ StoredKey

\* the entries the agent had under the header's (ratchet key, N_s)
HeaderEntries ==
    {e \in AgentBefore.skipped_messages :
        e.key = SkippedKey(Header.ratchet_public_key, Header.sent_count)}

\* C32: when the header's (ratchet key, N_s) is in the skipped-message map,
\* a successful decryption removes exactly that entry and changes nothing
\* else of the agent; a failed one leaves the entry (and the agent) as it was.
C32_SkippedKeyPath ==
    SkippedPath =>
        /\ Cardinality(HeaderEntries) = 1
        /\ IF last.kind = "ok"
           THEN AgentAfter =
                    [AgentBefore EXCEPT !.skipped_messages = @ \ HeaderEntries]
           ELSE /\ last.kind = "err"
                /\ AgentAfter = AgentBefore

\* a late message was decrypted with one of several stored keys of its chain
C32_Witness ==
    /\ SkippedPath
    /\ Decrypted
    /\ \E e \in AgentAfter.skipped_messages :
          e.key.ratchet_public_key = Header.ratchet_public_key

\* a garbled late message was refused by an agent holding its key
C32_WitnessFailed ==
    /\ SkippedPath
    /\ last.kind = "err"
    /\ last.tamper = "ciphertext"

\* an agent was handed, for the first time and as it was sent, a Regular
\* message that is not more than MAX_SKIP positions ahead of its N_r, or
\* whose key it has stored
InReach ==
    /\ Attempted
    /\ last.tamper \in {"", "none"}
    /\ ~last.again
    /\ Message.kind = "Regular"
    /\ ReceiverBefore.double_ratchet # None
    /\ StoredKey \/ ~Overflow

\* C33: messages of a sending chain decrypt in whatever order they are
\* delivered, as long as none is more than MAX_SKIP positions ahead of the
\* receiver's N_r when it arrives; this holds for messages of an earlier
\* chain that arrive after the receiver has ratcheted.
C33_OutOfOrderDecrypts == InReach => Decrypted

\* a message of an earlier chain decrypted after the receiver ratcheted, by
\* an agent that had skipped MAX_SKIP keys at once
C33_Witness ==
    /\ InReach
    /\ Decrypted
    /\ StoredKey
    /\ NewRatchetKey
    /\ Cardinality(AgentBefore.skipped_messages) >= MAX_SKIP

\* an agent was handed, as it was sent, a message it has decrypted before
Replayed ==
    /\ Attempted
    /\ last.again
    /\ Message.kind = "Regular"
    /\ ReceiverBefore.double_ratchet # None

\* C34: a message an agent has decrypted is refused with an error when it is
\* handed to the same agent again, and the agent is left as it was; no
\* message is decrypted twice, so no message key opens two deliveries.
C34_NoReplay ==
    /\ \A i \in 1..Len(wire) : wire[i].decrypted <= 1
    /\ Replayed => /\ last.kind = "err"
                   /\ AgentAfter = AgentBefore

\* a message of an earlier chain, decrypted with its stored key, was handed
\* over again after the receiver had ratcheted
C34_Witness ==
    /\ Replayed
    /\ last.kind = "err"
    /\ NewRatchetKey
    /\ AgentBefore.receiving_ratchet_key # None
    /\ AgentBefore.skipped_messages # {}

\* counters at zero and no skipped message key
Unused(dr) ==
    /\ dr.sent_count = 0
    /\ dr.received_count = 0
    /\ dr.previous_sending_chain_count = 0
    /\ dr.skipped_messages = {}

\* the agent of c as initiate leaves it
Initiated(c, dr) ==
    /\ dr.sending_chain_key # None
    /\ dr.receiving_chain_key = None
    /\ dr.receiving_ratchet_key =
           Some(convert_to_ratchet_public_key(PublicKey(client[Peer(c)].x3dh.prekey)))
    /\ dr.sending_ratchet_keypair[1] = c
    /\ Unused(dr)

\* the agent of c as respond leaves it
Responded(c, dr) ==
    /\ dr.sending_ratchet_keypair = convert_to_ratchet_keypair(client[c].x3dh.prekey)
    /\ dr.sending_chain_key = None
    /\ dr.receiving_chain_key = None
    /\ dr.receiving_ratchet_key = None
    /\ Unused(dr)

\* nothing was encrypted or handed over yet
Constructed == TotalSends = 0 /\ recvs = 0

\* C36: initiate leaves an agent with a sending chain key, no receiving
\* chain key, the peer's prekey as receiving ratchet key, zero counters and
\* an empty skipped-message map; respond leaves one with its own prekey key
\* pair as sending ratchet key pair, no chain key, no receiving ratchet key,
\* zero counters and an empty map, and after its first successful
\* decryption it has both chain keys.
C36_ConstructionStates ==
    /\ Constructed => /\ Initiated("alice", Agent("alice"))
                      /\ Responded("bob", Agent("bob"))
    /\ (AgentDecrypted /\ Responded(last.receiver, AgentBefore)) =>
           /\ AgentAfter.sending_chain_key # None
           /\ AgentAfter.receiving_chain_key # None

\* a responder decrypted its first message
C36_Witness ==
    /\ AgentDecrypted
    /\ Decrypted
    /\ Responded(last.receiver, AgentBefore)
    /\ Initiated(last.sender, Unwrap(SenderBefore.double_ratchet))

\* the skipped message keys the agent holds for its current receiving chain
CurrentEntries(dr) ==
    {e \in dr.skipped_messages :
        Some(e.key.ratchet_public_key) = dr.receiving_ratchet_key}

\* C37: an agent with a receiving chain key has a receiving ratchet key, and
\* every skipped message key it holds under its current receiving ratchet
\* key has an index strictly below N_r.
C37_AgentInvariants ==
    \A c \in Clients :
        client[c].double_ratchet # None =>
            /\ Agent(c).receiving_chain_key # None =>
                   Agent(c).receiving_ratchet_key # None
            /\ \A e \in CurrentEntries(Agent(c)) : e.key.n < Agent(c).received_count

\* an agent holds skipped keys of its current chain and of an earlier one
C37_Witness ==
    \E c \in Clients :
        /\ client[c].double_ratchet # None
        /\ Agent(c).receiving_chain_key # None
        /\ CurrentEntries(Agent(c)) # {}
        /\ Agent(c).skipped_messages \ CurrentEntries(Agent(c)) # {}

\* the Client has an agent and no X3DH pair to send along: its next message
\* is a Regular one
Acknowledged(self) ==
    self.double_ratchet # None /\ self.unacknowledged_x3dh = None

\* c's attempt_message_decryption returned Ok in the step that ends here
DecryptedBy(c) == last.delivered /\ last.receiver = c /\ last.kind = "ok"

\* C35: a Client's create_message returns X3DH envelopes as long as the
\* Client has never decrypted a message, and Regular envelopes from its
\* first successful attempt_message_decryption on: no Client starts out
\* acknowledged, a Client becomes acknowledged in exactly the steps in which
\* its attempt_message_decryption returns Ok and stays so (a failed
\* decryption and a create_message change nothing), and create_message
\* returns a Regular envelope exactly for an acknowledged Client.
C35_X3DHUntilFirstDecryption ==
    /\ [](TotalSends + recvs = 0 => \A c \in Clients : ~Acknowledged(client[c]))
    /\ [](Created => (Message.kind = "Regular" <=> Acknowledged(SenderBefore)))
    /\ [](Created => (Message.kind = "X3DH" <=> ~Acknowledged(SenderBefore)))
    /\ [][\A c \in Clients :
             Acknowledged(client[c])' <=> (Acknowledged(client[c]) \/ DecryptedBy(c)')]_vars

\* a Client that had sent X3DH envelopes sent a Regular one after it had
\* decrypted a reply
C35_Witness ==
    /\ Created
    /\ Message.kind = "Regular"
    /\ emitted[last.sender].count > 0
    /\ Acknowledged(SenderBefore)

\* a decryption failed for a Client that is not acknowledged
C35_WitnessFailed ==
    /\ last.delivered
    /\ last.kind = "err"
    /\ ~Acknowledged(ReceiverBefore)
    /\ ~Acknowledged(Receiver)

\* the fields of a Client that the X3DH agent and the infos make up
Fixed(self) ==
    [identity_key |-> self.x3dh.identity_key,
     prekey |-> self.x3dh.prekey,
     our_info |-> self.our_info,
     their_info |-> self.their_info]

\* prekeys that are not the one the peer of c published
OtherPrekeys(c) ==
    {PublicKey(Mallory.x3dh.prekey), PublicKey(client[c].x3dh.prekey),
     PublicKey(client[Peer(c)].x3dh.identity_key)}

\* create_message of c with k as recipient_prekey
CreateFor(c, k, p) ==
    create_message(client[c], csprng[c],
                   PublicKey(client[Peer(c)].x3dh.identity_key), k, p)

\* the recipient_prekey argument changes nothing of what create_message of c
\* returns or leaves behind
PrekeyIgnored(c) ==
    \A k \in OtherPrekeys(c), p \in Plaintexts : CreateFor(c, k, p) = Create(c, p)

\* C38: no call of create_message or attempt_message_decryption changes the
\* Client's X3DH identity key pair, prekey key pair, our_info or their_info;
\* once the Client has a Double Ratchet agent, the recipient_prekey argument
\* of create_message has no effect on the message or on the state.
C38_FixedFieldsAndPrekey ==
    /\ [][\A c \in Clients : Fixed(client[c])' = Fixed(client[c])]_vars
    /\ [](\A c \in Clients : client[c].double_ratchet # None => PrekeyIgnored(c))

\* a Client with an agent created a message its peer decrypted, with and
\* without an X3DH pair to send along
C38_Witness ==
    /\ Created
    /\ last.delivered
    /\ last.kind = "ok"
    /\ SenderBefore.double_ratchet # None
    /\ client[last.sender] # SenderBefore
    /\ client[last.receiver] # ReceiverBefore
    /\ \E c \in Clients : Acknowledged(client[c])
    /\ \E c \in Clients : /\ client[c].double_ratchet # None
                          /\ ~Acknowledged(client[c])

\* get_messages of c ran to its end in the step that ends here
GotMessages(c) ==
    last.op = "get_messages" /\ last.caller = c /\ last.status = "ok"

\* C39: every entry appended to a postal box is handed to
\* attempt_message_decryption by a later get_messages of the receiver, also
\* when two entries carry the same timestamp or an entry carries the stored
\* latest_message_timestamp: when a get_messages of c has run to its end,
\* c has handed over every entry its contact's postal box holds.
C39_EveryEntryHandedOver ==
    \A c \in Clients : GotMessages(c) => InTurn(c)
====
